---- MODULE Spec2Model ----
(***************************************************************************)
(* Model of the me-pdf export orchestration (examples/*/export-button.tsx, *)
(* document-menu.tsx, utils/pdf-export.ts) and of the local font directory *)
(* (packages/plugin-font/src/lib/local-font-access.ts).                    *)
(*                                                                         *)
(* Several specifications share the module:                                *)
(*   Spec      - one export call of one of the three export components,    *)
(*               against the annotation state of the primary engine;       *)
(*   SpecFonts - font discovery (queryLocalFonts) over a platform snapshot;*)
(*   SpecPlugin, SpecStyle, SpecDetect - the font plugin and its pure      *)
(*               functions; SpecCompose - the compositor loop;             *)
(*   SpecExports - two export components on one document;                  *)
(*   SpecSelector - the custom tab of FontSelector;                        *)
(*   SpecDraw  - the page calls of one compositor loop iteration.          *)
(* Strings are TLA+ strings; TLC evaluates Len, \o and SubSeq on them.      *)
(***************************************************************************)
EXTENDS Integers, Sequences, FiniteSets, TLC

VARIABLES
    \* ---- export orchestration ----
    component,                \* which component's handler is running
    pc,                       \* position of the handler (await points)
    isExporting,              \* useState flag of the component
    byUid,                    \* annotationCapability.getState().byUid, in insertion order
    fontDataStore,            \* postscript names held by the fontDataStore singleton
    customRenderAnnotations,  \* local of the handler
    basePdfBytes,             \* local of the handler
    finalPdfBytes,            \* local of the handler
    download,                 \* bytes handed to the download link
    thrown,                   \* error raised inside the try block
    result,                   \* how the promise returned by the handler settled
    calls,                    \* history: calls made on the collaborators, in order
    before,                   \* history: records present when the handler was called
    \* ---- font directory ----
    platformFonts,            \* what window.queryLocalFonts() currently returns
    localFonts,               \* last result of queryLocalFonts()
    queried,                  \* TRUE once queryLocalFonts() has returned
    requested,                \* argument of the last loadFontData() call
    loaded,                   \* what the last loadFontData() call returned
    grouped,                  \* what the last groupFontsByFamily() call returned
    \* ---- pure functions of local-font-access.ts ----
    styleArgs,                \* arguments of parseFontStyle()
    parsedStyle,              \* what parseFontStyle() returned
    buffer,                   \* argument of detectFontType()
    fontType,                 \* what detectFontType() returned
    \* ---- exportPdfWithCustomAnnotations (pdf-export.ts) ----
    composeAnnos,             \* the annotations argument
    composeFonts,             \* the fontDataMap argument: name -> binary
    annoIndex,                \* position of the for-of loop
    embeddedFonts,            \* names cached in the embeddedFonts Map
    embedCalls,               \* history: names passed to pdfDoc.embedFont
    drawnIds,                 \* history: annotations drawn on a page, in order
    saved,                    \* pdfDoc.save() was reached
    \* ---- FontPlugin ----
    isSupported,              \* 'queryLocalFonts' in window
    fontState,                \* FontState held by the plugin store
    lastCall,                 \* history: the last capability call and what it did
    everLoaded,               \* history: names for which loadFont has returned a font
    \* ---- two export components mounted on one document ----
    exports,                  \* per mounted component: its handler's state
    unprocessed,              \* deleteAnnotation calls the engine has not applied yet
    \* ---- FontSelector (font-selector.tsx) ----
    selections,               \* selectCustomFont calls, in the order the user made them
    reported,                 \* history: refs passed to onChange, in order
    \* ---- drawing of one annotation (pdf-export.ts) ----
    drawInput,                \* the annotation, its page height, whether its font embeds
    pageCalls,                \* history: page.draw* calls, in order
    drawPc                    \* "Start" before the loop iteration, "Done" after it

exportVars == <<component, pc, isExporting, byUid, fontDataStore,
                customRenderAnnotations, basePdfBytes, finalPdfBytes, download,
                thrown, result, calls, before>>
fontVars == <<platformFonts, localFonts, queried, requested, loaded, grouped>>
pureVars == <<styleArgs, parsedStyle, buffer, fontType>>
pluginVars == <<isSupported, fontState, lastCall, everLoaded>>
composeVars ==
    <<composeAnnos, composeFonts, annoIndex, embeddedFonts, embedCalls, drawnIds, saved>>
concurrentVars == <<exports, unprocessed>>
selectorVars == <<selections, reported>>
drawVars == <<drawInput, pageCalls, drawPc>>
vars == <<exportVars, fontVars, pluginVars, pureVars, composeVars, concurrentVars,
          selectorVars, drawVars>>

\* Number of annotation slots (ids 1..MaxAnnos) of the document.
MaxAnnos == 3
\* Longest platform font snapshot.
MaxFonts == 3

(***************************************************************************)
(* Generic sequence helpers.                                               *)
(***************************************************************************)
Range(s) == {s[i] : i \in 1..Len(s)}

\* A JavaScript value that may be null or undefined: <<>> or <<value>>.
Null == <<>>
Some(x) == <<x>>

(***************************************************************************)
(* Annotation records.                                                     *)
(***************************************************************************)
StandardFontRef == [type |-> "standard", postscriptName |-> "Helvetica"]
CustomFontRef == [type |-> "custom", postscriptName |-> "F1"]
NoFontRef == [type |-> "absent", postscriptName |-> ""]

AnnoKinds ==
    { [type |-> "FREETEXT", fontFamily |-> CustomFontRef],
      [type |-> "FREETEXT", fontFamily |-> StandardFontRef],
      [type |-> "UNDERLINE", fontFamily |-> NoFontRef],
      [type |-> "STRIKEOUT", fontFamily |-> NoFontRef],
      [type |-> "SQUIGGLY", fontFamily |-> NoFontRef],
      [type |-> "HIGHLIGHT", fontFamily |-> NoFontRef],
      [type |-> "STAMP", fontFamily |-> NoFontRef] }

Anno(i, k) == [id |-> i, pageIndex |-> 0, type |-> k.type, fontFamily |-> k.fontFamily]

Ids(annos) == {a.id : a \in Range(annos)}

\* @embedpdf/models
isCustomFontRef(fontRef) == fontRef.type = "custom"
isStandardFontRef(fontRef) == fontRef.type = "standard"

isFreeTextAnnotation(anno) == anno.type = "FREETEXT"
isUnderlineAnnotation(anno) == anno.type = "UNDERLINE"
isStrikeOutAnnotation(anno) == anno.type = "STRIKEOUT"
isSquigglyAnnotation(anno) == anno.type = "SQUIGGLY"

\* A classification that forgets the squiggly case.
isCustomRenderAnnotation_NoSquiggly(anno) ==
    IF isFreeTextAnnotation(anno) THEN isCustomFontRef(anno.fontFamily)
    ELSE IF isUnderlineAnnotation(anno) THEN TRUE
    ELSE IF isStrikeOutAnnotation(anno) THEN TRUE
    ELSE FALSE

isCustomRenderAnnotation(anno) ==
    IF isFreeTextAnnotation(anno) THEN isCustomFontRef(anno.fontFamily)
    ELSE IF isUnderlineAnnotation(anno) THEN TRUE
    ELSE IF isStrikeOutAnnotation(anno) THEN TRUE
    ELSE IF isSquigglyAnnotation(anno) THEN TRUE
    ELSE FALSE

\* react-tailwind ExportButton: fontRef && fontRef.type === 'custom'
hasCustomFont(anno) ==
    anno.fontFamily.type # "absent" /\ anno.fontFamily.type = "custom"

Components == {"ExportButton", "DocumentMenu", "ReactExportButton"}

Classify(c, anno) ==
    IF c = "ReactExportButton" THEN hasCustomFont(anno)
    ELSE isCustomRenderAnnotation(anno)

(***************************************************************************)
(* The primary engine's annotation capability (external collaborator).     *)
(***************************************************************************)
\* forDocument(documentId).deleteAnnotation(pageIndex, id)
deleteAnnotation(state, pageIndex, id) ==
    SelectSeq(state, LAMBDA a : ~(a.id = id /\ a.pageIndex = pageIndex))

\* forDocument(documentId).importAnnotations([{ annotation: anno }])
importAnnotations(state, anno) ==
    IF anno.id \in Ids(state)
    THEN [i \in 1..Len(state) |-> IF state[i].id = anno.id THEN anno ELSE state[i]]
    ELSE Append(state, anno)

RECURSIVE DeleteEach(_, _)
DeleteEach(state, annos) ==
    IF annos = <<>> THEN state
    ELSE DeleteEach(deleteAnnotation(state, Head(annos).pageIndex, Head(annos).id),
                    Tail(annos))

RECURSIVE ImportEach(_, _)
ImportEach(state, annos) ==
    IF annos = <<>> THEN state
    ELSE ImportEach(importAnnotations(state, Head(annos)), Tail(annos))

(***************************************************************************)
(* Bytes.  A document is described by who produced it, which annotations   *)
(* the primary engine rendered into it and which the overlay drew on top.  *)
(***************************************************************************)
NoBytes == [producer |-> "none", rendered |-> {}, drawn |-> <<>>]

\* exportTask of saveAsCopy(): the engine renders the annotations it holds.
saveAsCopy(state) == [producer |-> "pdfium", rendered |-> Ids(state), drawn |-> <<>>]

\* Which records the overlay draws (font embedding and geometry abstracted):
\* pdf-export.ts exportPdfWithCustomAnnotations / exportPdfWithCustomFonts.
OverlayDraws(c, anno, fontDataMap) ==
    IF isFreeTextAnnotation(anno)
    THEN /\ ~isStandardFontRef(anno.fontFamily)
         /\ isCustomFontRef(anno.fontFamily)
         /\ anno.fontFamily.postscriptName \in fontDataMap
    ELSE /\ c # "ReactExportButton"
         /\ \/ isUnderlineAnnotation(anno)
            \/ isStrikeOutAnnotation(anno)
            \/ isSquigglyAnnotation(anno)

exportPdfWithCustomAnnotations(c, base, annos, fontDataMap) ==
    [producer |-> "pdf-lib",
     rendered |-> base.rendered,
     drawn |-> SelectSeq(annos, LAMBDA a : OverlayDraws(c, a, fontDataMap))]

(***************************************************************************)
(* History of collaborator calls.                                          *)
(***************************************************************************)
Call(op, arg) == [op |-> op, arg |-> arg]
DeleteCalls(annos) == [i \in 1..Len(annos) |-> Call("deleteAnnotation", annos[i].id)]
ImportCalls(annos) == [i \in 1..Len(annos) |-> Call("importAnnotations", annos[i].id)]
Ops(history) == {history[i].op : i \in 1..Len(history)}
CallsOf(history, op) == {history[i].arg : i \in {j \in 1..Len(history) : history[j].op = op}}

hasCustomRendering == Len(customRenderAnnotations) > 0

Fulfilled == [status |-> "fulfilled", error |-> "none"]
Rejected(e) == [status |-> "rejected", error |-> e]
Pending == [status |-> "pending", error |-> "none"]

(***************************************************************************)
(* handleExport / handleDownload, one action per run between two awaits.   *)
(***************************************************************************)
\* A catch with no finally block: the in-flight flag stays as it was.
CatchFinally_NoFinally(error) ==
    /\ thrown' = error
    /\ isExporting' = isExporting
    /\ result' = Fulfilled
    /\ pc' = "Settled"

\* catch (error) { console.error(...) } finally { setIsExporting(false) }
CatchFinally(error) ==
    /\ thrown' = error
    /\ isExporting' = FALSE
    /\ result' = Fulfilled
    /\ pc' = "Settled"

\* Reaching the end of the try block: download link, then finally.
DownloadFinally(bytes) ==
    /\ download' = bytes
    /\ isExporting' = FALSE
    /\ result' = Fulfilled
    /\ pc' = "Settled"

\* Start without the settle delay: saveAsCopy is requested right after the
\* deletion loop.
Start_NoSettleDelay(c) ==
    /\ pc = "Idle"
    /\ ~(c = "DocumentMenu" /\ isExporting)
    /\ component' = c
    /\ isExporting' = TRUE
    /\ before' = Range(byUid)
    /\ LET custom == SelectSeq(byUid, LAMBDA a : Classify(c, a)) IN
        /\ customRenderAnnotations' = custom
        /\ byUid' = DeleteEach(byUid, custom)
        /\ calls' = DeleteCalls(custom) \o <<Call("saveAsCopy", 0)>>
        /\ pc' = "BaseExporting"
    /\ UNCHANGED <<fontDataStore, basePdfBytes, finalPdfBytes, download, thrown, result>>
    /\ UNCHANGED <<fontVars, pluginVars, pureVars, composeVars, concurrentVars, selectorVars, drawVars>>

\* The click: guard, setIsExporting(true), classification, removal, and
\* either the settle timer or (nothing to remove) the saveAsCopy request.
Start(c) ==
    /\ pc = "Idle"
    /\ ~(c = "DocumentMenu" /\ isExporting)
    /\ component' = c
    /\ isExporting' = TRUE
    /\ before' = Range(byUid)
    /\ LET custom == SelectSeq(byUid, LAMBDA a : Classify(c, a)) IN
        /\ customRenderAnnotations' = custom
        /\ IF Len(custom) > 0
           THEN /\ byUid' = DeleteEach(byUid, custom)
                /\ calls' = DeleteCalls(custom) \o <<Call("setTimeout", 0)>>
                /\ pc' = "Removing"
           ELSE /\ byUid' = byUid
                /\ calls' = <<Call("saveAsCopy", 0)>>
                /\ pc' = "BaseExporting"
    /\ UNCHANGED <<fontDataStore, basePdfBytes, finalPdfBytes, download, thrown, result>>
    /\ UNCHANGED <<fontVars, pluginVars, pureVars, composeVars, concurrentVars, selectorVars, drawVars>>

\* The 100 ms timer fires; saveAsCopy is requested.
SettleElapsed ==
    /\ pc = "Removing"
    /\ calls' = calls \o <<Call("timeout", 0), Call("saveAsCopy", 0)>>
    /\ pc' = "BaseExporting"
    /\ UNCHANGED <<component, isExporting, byUid, fontDataStore, customRenderAnnotations,
                   basePdfBytes, finalPdfBytes, download, thrown, result, before>>
    /\ UNCHANGED <<fontVars, pluginVars, pureVars, composeVars, concurrentVars, selectorVars, drawVars>>

\* BaseExportResolve that hands the base bytes to the compositor whether or
\* not anything needs custom rendering.
BaseExportResolve_AlwaysComposite ==
    /\ pc = "BaseExporting"
    /\ basePdfBytes' = saveAsCopy(byUid)
    /\ calls' = calls \o <<Call("saveAsCopy:resolved", 0),
                           Call("exportPdfWithCustomAnnotations", 0)>>
    /\ pc' = "Compositing"
    /\ UNCHANGED <<finalPdfBytes, download, isExporting, result>>
    /\ UNCHANGED <<component, byUid, fontDataStore, customRenderAnnotations, thrown, before>>
    /\ UNCHANGED <<fontVars, pluginVars, pureVars, composeVars, concurrentVars, selectorVars, drawVars>>

\* exportTask resolves.
BaseExportResolve ==
    /\ pc = "BaseExporting"
    /\ basePdfBytes' = saveAsCopy(byUid)
    /\ IF hasCustomRendering
       THEN /\ calls' = calls \o <<Call("saveAsCopy:resolved", 0),
                                   Call("exportPdfWithCustomAnnotations", 0)>>
            /\ pc' = "Compositing"
            /\ UNCHANGED <<finalPdfBytes, download, isExporting, result>>
       ELSE /\ calls' = calls \o <<Call("saveAsCopy:resolved", 0)>>
            /\ finalPdfBytes' = basePdfBytes'
            /\ DownloadFinally(finalPdfBytes')
    /\ UNCHANGED <<component, byUid, fontDataStore, customRenderAnnotations, thrown, before>>
    /\ UNCHANGED <<fontVars, pluginVars, pureVars, composeVars, concurrentVars, selectorVars, drawVars>>

\* exportTask rejects.
BaseExportReject ==
    /\ pc = "BaseExporting"
    /\ calls' = calls \o <<Call("saveAsCopy:rejected", 0)>>
    /\ CatchFinally("BaseExportFailure")
    /\ UNCHANGED <<component, byUid, fontDataStore, customRenderAnnotations,
                   basePdfBytes, finalPdfBytes, download, before>>
    /\ UNCHANGED <<fontVars, pluginVars, pureVars, composeVars, concurrentVars, selectorVars, drawVars>>

\* A return whose reimport loop walks every annotation read at the start.
CompositeReturn_ImportAll ==
    /\ pc = "Compositing"
    /\ finalPdfBytes' = exportPdfWithCustomAnnotations(component, basePdfBytes,
                            customRenderAnnotations, fontDataStore)
    /\ calls' = calls \o <<Call("exportPdfWithCustomAnnotations:returned", 0)>>
                      \o ImportCalls(customRenderAnnotations \o byUid)
    /\ byUid' = ImportEach(byUid, customRenderAnnotations)
    /\ DownloadFinally(finalPdfBytes')
    /\ UNCHANGED <<component, fontDataStore, customRenderAnnotations, basePdfBytes,
                   thrown, before>>
    /\ UNCHANGED <<fontVars, pluginVars, pureVars, composeVars, concurrentVars, selectorVars, drawVars>>

\* The compositor returns: reimport loop, download, finally.
CompositeReturn ==
    /\ pc = "Compositing"
    /\ finalPdfBytes' = exportPdfWithCustomAnnotations(component, basePdfBytes,
                            customRenderAnnotations, fontDataStore)
    /\ calls' = calls \o <<Call("exportPdfWithCustomAnnotations:returned", 0)>>
                      \o ImportCalls(customRenderAnnotations)
    /\ byUid' = ImportEach(byUid, customRenderAnnotations)
    /\ DownloadFinally(finalPdfBytes')
    /\ UNCHANGED <<component, fontDataStore, customRenderAnnotations, basePdfBytes,
                   thrown, before>>
    /\ UNCHANGED <<fontVars, pluginVars, pureVars, composeVars, concurrentVars, selectorVars, drawVars>>

\* The compositor throws (PDFDocument.load, drawText or save fails).
CompositeThrow ==
    /\ pc = "Compositing"
    /\ calls' = calls \o <<Call("exportPdfWithCustomAnnotations:threw", 0)>>
    /\ CatchFinally("CompositingFailure")
    /\ UNCHANGED <<component, byUid, fontDataStore, customRenderAnnotations,
                   basePdfBytes, finalPdfBytes, download, before>>
    /\ UNCHANGED <<fontVars, pluginVars, pureVars, composeVars, concurrentVars, selectorVars, drawVars>>

(***************************************************************************)
(* FontPlugin state (font-plugin.ts, index.ts).                            *)
(***************************************************************************)
initialState ==
    [hasPermission |-> FALSE, localFonts |-> <<>>, loadedFonts |-> <<>>,
     isLoading |-> FALSE]

NoCall ==
    [op |-> "none", arg |-> "", outcome |-> "none", value |-> Null, fonts |-> <<>>,
     error |-> "", events |-> <<>>, platformQueries |-> 0, again |-> FALSE]

InitConcurrentIdle ==
    /\ exports = <<>>
    /\ unprocessed = {}

InitSelectorIdle ==
    /\ selections = <<>>
    /\ reported = <<>>

InitDrawIdle ==
    /\ drawInput = <<>>
    /\ pageCalls = <<>>
    /\ drawPc = "Done"

InitComposeIdle ==
    /\ composeAnnos = <<>>
    /\ composeFonts = <<>>
    /\ annoIndex = 1
    /\ embeddedFonts = {}
    /\ embedCalls = <<>>
    /\ drawnIds = <<>>
    /\ saved = FALSE

InitPureIdle ==
    /\ styleArgs = [style |-> "", fullName |-> ""]
    /\ parsedStyle = Null
    /\ buffer = <<>>
    /\ fontType = ""

InitPluginIdle ==
    /\ isSupported = TRUE
    /\ fontState = initialState
    /\ lastCall = NoCall
    /\ everLoaded = {}

InitFontsIdle ==
    /\ platformFonts = <<>>
    /\ localFonts = <<>>
    /\ queried = FALSE
    /\ requested = ""
    /\ loaded = Null
    /\ grouped = <<>>

InitExportIdle ==
    /\ component = "ExportButton"
    /\ pc = "Idle"
    /\ isExporting = FALSE
    /\ customRenderAnnotations = <<>>
    /\ basePdfBytes = NoBytes
    /\ finalPdfBytes = NoBytes
    /\ download = NoBytes
    /\ thrown = "none"
    /\ result = Pending
    /\ calls = <<>>
    /\ before = {}

\* Every document of up to MaxAnnos annotations, ids ascending in byUid.
Documents ==
    LET Slots == [1..MaxAnnos -> AnnoKinds \cup {[type |-> "", fontFamily |-> NoFontRef]}]
        RECURSIVE Build(_, _)
        Build(f, i) ==
            IF i > MaxAnnos THEN <<>>
            ELSE (IF f[i].type = "" THEN <<>> ELSE <<Anno(i, f[i])>>) \o Build(f, i + 1)
    IN {Build(f, 1) : f \in Slots}

Init ==
    /\ InitExportIdle
    /\ byUid \in Documents
    /\ fontDataStore \in SUBSET {CustomFontRef.postscriptName}
    /\ InitFontsIdle
    /\ InitPluginIdle
    /\ InitPureIdle
    /\ InitComposeIdle
    /\ InitConcurrentIdle
    /\ InitSelectorIdle
    /\ InitDrawIdle

Next ==
    \/ \E c \in Components : Start(c)
    \/ SettleElapsed
    \/ BaseExportResolve
    \/ BaseExportReject
    \/ CompositeReturn
    \/ CompositeThrow

Spec == Init /\ [][Next]_vars

(***************************************************************************)
(* Claims about the export orchestration, checked under Spec.              *)
(***************************************************************************)
Settled == pc = "Settled"
Before(op1, op2) ==
    \A i \in 1..Len(calls) :
        calls[i].op = op2 => \E j \in 1..(i - 1) : calls[j].op = op1

\* C1: once an export call has settled, successfully or not, the set of
\* annotation ids present in the primary engine equals the set present before
\* the call.
C1_AnnotationSetUnchanged ==
    Settled => Ids(byUid) = {a.id : a \in before}

\* C2: if saveAsCopy fails after the custom-render annotations were deleted,
\* every deleted record has been passed to importAnnotations by the time the
\* export call finishes.
C2_ReimportAfterBaseExportFailure ==
    (Settled /\ thrown = "BaseExportFailure") =>
        \A a \in Range(customRenderAnnotations) :
            a.id \in CallsOf(calls, "importAnnotations")

\* C3: if the compositor throws after the removal, every removed record is
\* back in the primary engine when the export call finishes.
C3_ReimportAfterCompositingFailure ==
    (Settled /\ thrown = "CompositingFailure") =>
        \A a \in Range(customRenderAnnotations) : a \in Range(byUid)

\* C4: a failed export rejects with the originating error, and the annotation
\* state has been restored by then.
C4_RejectsWithOriginatingError ==
    (Settled /\ thrown # "none") =>
        /\ result = Rejected(thrown)
        /\ Range(byUid) = before

\* C5: the stages run in order: saveAsCopy is requested only after a
\* deleteAnnotation call for every custom-render record and after the settle
\* delay has elapsed; the compositor is invoked only after saveAsCopy has
\* resolved; no importAnnotations call precedes the compositor's return.
C5_StageOrder ==
    /\ \A i \in 1..Len(calls) :
          calls[i].op = "saveAsCopy" =>
              /\ \A a \in Range(customRenderAnnotations) :
                    \E j \in 1..(i - 1) :
                        calls[j].op = "deleteAnnotation" /\ calls[j].arg = a.id
              /\ hasCustomRendering =>
                    \E j \in 1..(i - 1) : calls[j].op = "timeout"
    /\ Before("deleteAnnotation", "setTimeout")
    /\ Before("setTimeout", "timeout")
    /\ Before("saveAsCopy:resolved", "exportPdfWithCustomAnnotations")
    /\ Before("exportPdfWithCustomAnnotations:returned", "importAnnotations")

C5_Witness ==
    /\ Settled
    /\ Len(customRenderAnnotations) >= 2
    /\ CallsOf(calls, "importAnnotations") = Ids(customRenderAnnotations)

\* C6: the compositor runs iff the custom-render set is non-empty.  With an
\* empty set no deleteAnnotation, compositor or importAnnotations call is made
\* and the output is the base export; with a non-empty set the output of a
\* successful export is the compositor's result.
C6_CompositorIffCustomRender ==
    /\ ~hasCustomRendering =>
          Ops(calls) \cap {"deleteAnnotation", "exportPdfWithCustomAnnotations",
                           "importAnnotations"} = {}
    /\ (Settled /\ thrown = "none") =>
          IF hasCustomRendering
          THEN /\ "exportPdfWithCustomAnnotations" \in Ops(calls)
               /\ download.producer = "pdf-lib"
               /\ download = exportPdfWithCustomAnnotations(component, basePdfBytes,
                                 customRenderAnnotations, fontDataStore)
          ELSE /\ download.producer = "pdfium"
               /\ download = basePdfBytes

C6_Witness ==
    /\ Settled
    /\ thrown = "none"
    /\ ~hasCustomRendering
    /\ Cardinality(before) >= 2
    /\ download = basePdfBytes

UpperAlphabet == "ABCDEFGHIJKLMNOPQRSTUVWXYZ"
LowerAlphabet == "abcdefghijklmnopqrstuvwxyz"
\* U+0E59 THAI DIGIT NINE, which has no ASCII spelling and no case.
ThaiNine == "~"

CharAt(s, i) == SubSeq(s, i, i)

MapChar(c, from, to) ==
    IF \E i \in 1..Len(from) : CharAt(from, i) = c
    THEN CharAt(to, CHOOSE i \in 1..Len(from) : CharAt(from, i) = c)
    ELSE c

RECURSIVE MapChars(_, _, _)
MapChars(s, from, to) ==
    IF Len(s) = 0 THEN ""
    ELSE MapChar(CharAt(s, 1), from, to) \o MapChars(SubSeq(s, 2, Len(s)), from, to)

toUpperCase(s) == MapChars(s, LowerAlphabet, UpperAlphabet)
toLowerCase(s) == MapChars(s, UpperAlphabet, LowerAlphabet)

includes(s, sub) ==
    \E i \in 1..(Len(s) - Len(sub) + 1) : SubSeq(s, i, i + Len(sub) - 1) = sub

(***************************************************************************)
(* local-font-access.ts                                                    *)
(***************************************************************************)
\* A parseFontStyle whose italic test is one more branch of the weight chain.
parseFontStyle_ItalicInChain(style, fullName) ==
    LET s == toLowerCase(style \o " " \o fullName)
        weighted ==
            \/ includes(s, "thin") \/ includes(s, "hairline")
            \/ includes(s, "light") \/ includes(s, "bold")
            \/ includes(s, "black") \/ includes(s, "heavy") \/ includes(s, "medium")
    IN [weight |-> IF includes(s, "bold") THEN 700 ELSE 400,
        italic |-> ~weighted /\ (includes(s, "italic") \/ includes(s, "oblique"))]

parseFontStyle(style, fullName) ==
    LET s == toLowerCase(style \o " " \o fullName) IN
    [weight |->
        IF includes(s, "thin") \/ includes(s, "hairline") THEN 100
        ELSE IF includes(s, "extra light") \/ includes(s, "extralight")
                \/ includes(s, "ultra light") THEN 200
        ELSE IF includes(s, "light") THEN 300
        ELSE IF includes(s, "semi bold") \/ includes(s, "semibold")
                \/ includes(s, "demi bold") THEN 600
        ELSE IF includes(s, "extra bold") \/ includes(s, "extrabold")
                \/ includes(s, "ultra bold") THEN 800
        ELSE IF includes(s, "bold") THEN 700
        ELSE IF includes(s, "black") \/ includes(s, "heavy") THEN 900
        ELSE IF includes(s, "medium") THEN 500
        ELSE 400,
     italic |-> includes(s, "italic") \/ includes(s, "oblique")]

\* seenNames.has / get / set on a Map<string, number>
MapHas(m, k) == k \in DOMAIN m
MapSet(m, k, v) == [x \in DOMAIN m \cup {k} |-> IF x = k THEN v ELSE m[x]]

\* The callback of fonts.map for one font; seen is seenNames after the
\* duplicate handling of this font.
SeenAfter(seenNames, font) ==
    IF MapHas(seenNames, font.postscriptName)
    THEN MapSet(seenNames, font.postscriptName, seenNames[font.postscriptName] + 1)
    ELSE MapSet(seenNames, font.postscriptName, 0)

\* Duplicate naming that numbers the k-th occurrence k instead of k-1.
ExposedName_OffByOne(seenNames, font) ==
    IF MapHas(seenNames, font.postscriptName)
    THEN font.postscriptName \o "#" \o ToString(seenNames[font.postscriptName] + 2)
    ELSE font.postscriptName

ExposedName(seenNames, font) ==
    IF MapHas(seenNames, font.postscriptName)
    THEN font.postscriptName \o "#" \o ToString(seenNames[font.postscriptName] + 1)
    ELSE font.postscriptName

\* Family labelling that tests the duplicate case before the marker.
SpecialFamily_VariantFirst(seen, font, psName) ==
    LET upperName == toUpperCase(font.fullName) IN
    IF psName # font.postscriptName
    THEN font.family \o " (Variant " \o ToString(seen[font.postscriptName]) \o ")"
    ELSE IF includes(upperName, "IT9") \/ includes(upperName, "IT" \o ThaiNine)
    THEN font.family \o " (IT9)"
    ELSE font.family

SpecialFamily(seen, font, psName) ==
    LET upperName == toUpperCase(font.fullName) IN
    IF includes(upperName, "IT9") \/ includes(upperName, "IT" \o ThaiNine)
    THEN font.family \o " (IT9)"
    ELSE IF psName # font.postscriptName
    THEN font.family \o " (Variant " \o ToString(seen[font.postscriptName]) \o ")"
    ELSE font.family

LocalFont(seenNames, font) ==
    LET psName == ExposedName(seenNames, font)
        seen == SeenAfter(seenNames, font)
        parsed == parseFontStyle(font.style, font.fullName)
    IN [family |-> SpecialFamily(seen, font, psName),
        fullName |-> font.fullName,
        postscriptName |-> psName,
        style |-> font.style,
        weight |-> parsed.weight,
        italic |-> parsed.italic]

RECURSIVE MapFonts(_, _)
MapFonts(fonts, seenNames) ==
    IF fonts = <<>> THEN <<>>
    ELSE <<LocalFont(seenNames, Head(fonts))>>
         \o MapFonts(Tail(fonts), SeenAfter(seenNames, Head(fonts)))

\* queryLocalFonts() when the platform grants access.
queryLocalFonts(fonts) == MapFonts(fonts, <<>>)

\* A grouping step that replaces the family's group instead of extending it.
AddToGroup_Overwrite(groups, font) == MapSet(groups, font.family, <<font>>)

\* The body of the loop of groupFontsByFamily.
AddToGroup(groups, font) ==
    IF MapHas(groups, font.family)
    THEN MapSet(groups, font.family, Append(groups[font.family], font))
    ELSE MapSet(groups, font.family, <<font>>)

RECURSIVE GroupInto(_, _)
GroupInto(groups, fonts) ==
    IF fonts = <<>> THEN groups
    ELSE GroupInto(AddToGroup(groups, Head(fonts)), Tail(fonts))

\* groupFontsByFamily(fonts): a Map from family label to descriptors.
groupFontsByFamily(fonts) == GroupInto(<<>>, fonts)

\* A detection that tests the "%!" signature before the length.
detectFontType_SignatureFirst(data) ==
    IF Len(data) >= 2 /\ data[1] = 37 /\ data[2] = 33 THEN "Type1"
    ELSE "TrueType"

\* detectFontType(data), data a sequence of bytes.
detectFontType(data) ==
    IF Len(data) < 4 THEN "TrueType"
    ELSE IF data[1] = 37 /\ data[2] = 33 THEN "Type1"
    ELSE "TrueType"

Digits == "0123456789"
IsDigit(c) == \E d \in 1..Len(Digits) : CharAt(Digits, d) = c
DigitValue(c) == (CHOOSE d \in 1..Len(Digits) : CharAt(Digits, d) = c) - 1

\* parseInt(s, 10) of a string of decimal digits.
RECURSIVE parseInt(_)
parseInt(s) ==
    IF Len(s) = 0 THEN 0
    ELSE 10 * parseInt(SubSeq(s, 1, Len(s) - 1)) + DigitValue(CharAt(s, Len(s)))

\* postscriptName.match(/^(.+)#(\d+)$/): where the "#" of the match stands, or
\* 0 when the name does not match.  The digits hold no "#", so the "#" is the
\* last one of the name; (.+) wants a character before it, (\d+) one after it.
DuplicateMatch(postscriptName) ==
    LET hashes == {p \in 2..(Len(postscriptName) - 1) :
                      /\ CharAt(postscriptName, p) = "#"
                      /\ \A q \in (p + 1)..Len(postscriptName) :
                            IsDigit(CharAt(postscriptName, q))}
    IN IF hashes = {} THEN 0 ELSE CHOOSE p \in hashes : TRUE

TargetPsName(postscriptName) ==
    LET p == DuplicateMatch(postscriptName) IN
    IF p = 0 THEN postscriptName ELSE SubSeq(postscriptName, 1, p - 1)

\* A target index that takes the suffix as a 1-based position.
TargetIndex_OneBased(postscriptName) ==
    LET p == DuplicateMatch(postscriptName) IN
    IF p = 0 THEN 0
    ELSE parseInt(SubSeq(postscriptName, p + 1, Len(postscriptName))) - 1

TargetIndex(postscriptName) ==
    LET p == DuplicateMatch(postscriptName) IN
    IF p = 0 THEN 0
    ELSE parseInt(SubSeq(postscriptName, p + 1, Len(postscriptName)))

\* loadFontData(postscriptName) on a supporting platform whose
\* window.queryLocalFonts() resolves with fonts.
\* A lookup that falls back to the first match when the index is out of range.
loadFontData_FirstOnMiss(fonts, postscriptName) ==
    LET matches == SelectSeq(fonts,
                       LAMBDA f : f.postscriptName = TargetPsName(postscriptName))
        targetIndex == TargetIndex(postscriptName)
        fontData == IF targetIndex < 0 \/ targetIndex >= Len(matches)
                    THEN matches[1] ELSE matches[targetIndex + 1]
    IN IF matches = <<>> THEN Null
       ELSE Some([family |-> fontData.family,
                  fullName |-> fontData.fullName,
                  postscriptName |-> fontData.postscriptName,
                  style |-> fontData.style,
                  data |-> fontData.blob,
                  fontType |-> detectFontType(fontData.blob)])

loadFontData(fonts, postscriptName) ==
    LET matches == SelectSeq(fonts,
                       LAMBDA f : f.postscriptName = TargetPsName(postscriptName))
        targetIndex == TargetIndex(postscriptName)
    IN IF targetIndex < 0 \/ targetIndex >= Len(matches) THEN Null
       ELSE LET fontData == matches[targetIndex + 1] IN
            Some([family |-> fontData.family,
                  fullName |-> fontData.fullName,
                  postscriptName |-> fontData.postscriptName,
                  style |-> fontData.style,
                  data |-> fontData.blob,
                  fontType |-> detectFontType(fontData.blob)])

\* Names a caller may ask loadFontData for.
LoadNames == {"A", "A#1", "A#2", "B", "B#1", "A#1#0", "Z", "B#x"}

(***************************************************************************)
(* Font discovery.                                                         *)
(***************************************************************************)
\* Fonts the platform may report (FontData without its position-bound blob).
FontPool ==
    { [postscriptName |-> "A", family |-> "F", fullName |-> "F Regular", style |-> "Regular"],
      [postscriptName |-> "A", family |-> "F", fullName |-> "F it9 Bold", style |-> "Bold"],
      [postscriptName |-> "A#1", family |-> "F", fullName |-> "F Light", style |-> "Light"],
      [postscriptName |-> "B", family |-> "G", fullName |-> "G IT~ Oblique", style |-> "Oblique"],
      [postscriptName |-> "B", family |-> "G", fullName |-> "G SemiBold", style |-> "SemiBold"] }

\* The file of the i-th platform entry: every second one a Type 1 file ("%!"),
\* the others TrueType (00 01 00 00); the last byte tells the entries apart.
BlobBytes(i) == IF i % 2 = 0 THEN <<37, 33, 80, i>> ELSE <<0, 1, 0, i>>

\* Snapshots of at most MaxFonts fonts; blob is what font.blob() reads.
Snapshots ==
    UNION { { [i \in 1..n |-> [postscriptName |-> f[i].postscriptName,
                               family |-> f[i].family,
                               fullName |-> f[i].fullName,
                               style |-> f[i].style,
                               blob |-> BlobBytes(i)]] : f \in [1..n -> FontPool] }
            : n \in 0..MaxFonts }

\* await window.queryLocalFonts() resolves and the map runs.
QueryLocalFonts ==
    /\ ~queried
    /\ localFonts' = queryLocalFonts(platformFonts)
    /\ queried' = TRUE
    /\ UNCHANGED <<platformFonts, requested, loaded, grouped>>
    /\ UNCHANGED <<exportVars, pluginVars, pureVars, composeVars, concurrentVars, selectorVars, drawVars>>

\* loadFontData(postscriptName) runs to its return.
LoadFontData(postscriptName) ==
    /\ requested' = postscriptName
    /\ loaded' = loadFontData(platformFonts, postscriptName)
    /\ UNCHANGED <<platformFonts, localFonts, queried, grouped>>
    /\ UNCHANGED <<exportVars, pluginVars, pureVars, composeVars, concurrentVars, selectorVars, drawVars>>

\* groupFontsByFamily(fonts) on the descriptors the query returned.
GroupFontsByFamily ==
    /\ queried
    /\ grouped' = groupFontsByFamily(localFonts)
    /\ UNCHANGED <<platformFonts, localFonts, queried, requested, loaded>>
    /\ UNCHANGED <<exportVars, pluginVars, pureVars, composeVars, concurrentVars, selectorVars, drawVars>>

InitFonts ==
    /\ InitExportIdle
    /\ byUid = <<>>
    /\ fontDataStore = {}
    /\ platformFonts \in Snapshots
    /\ localFonts = <<>>
    /\ queried = FALSE
    /\ requested = ""
    /\ loaded = Null
    /\ grouped = <<>>
    /\ InitPureIdle
    /\ InitComposeIdle
    /\ InitPluginIdle
    /\ InitConcurrentIdle
    /\ InitSelectorIdle
    /\ InitDrawIdle

NextFonts ==
    \/ QueryLocalFonts
    \/ \E n \in LoadNames : LoadFontData(n)
    \/ GroupFontsByFamily

SpecFonts == InitFonts /\ [][NextFonts]_vars

(***************************************************************************)
(* Claims about font discovery, checked under SpecFonts.                   *)
(***************************************************************************)
\* The number of fonts among the first i of the snapshot that share the raw
\* postscript name of the i-th.
Occurrence(i) ==
    Cardinality({j \in 1..i :
        platformFonts[j].postscriptName = platformFonts[i].postscriptName})

\* C8: the postscript names exposed by queryLocalFonts are pairwise distinct,
\* for any snapshot, duplicates of raw names included.
C8_ExposedNamesDistinct ==
    queried =>
        \A i, j \in 1..Len(localFonts) :
            i # j => localFonts[i].postscriptName # localFonts[j].postscriptName

\* C9: the first occurrence of a raw postscript name is exposed unchanged, and
\* its k-th occurrence (k >= 2) as "<raw>#<k-1>", counted per raw name.
C9_DuplicateSuffix ==
    queried =>
        /\ Len(localFonts) = Len(platformFonts)
        /\ \A i \in 1..Len(platformFonts) :
              localFonts[i].postscriptName =
                  IF Occurrence(i) = 1
                  THEN platformFonts[i].postscriptName
                  ELSE platformFonts[i].postscriptName \o "#"
                           \o ToString(Occurrence(i) - 1)

C9_Witness ==
    /\ queried
    /\ Len(localFonts) = 3
    /\ localFonts[1].postscriptName = "A"
    /\ localFonts[2].postscriptName = "B"
    /\ localFonts[3].postscriptName = "A#1"
    /\ platformFonts[3].postscriptName = "A"

\* The full name carries the special marker: "IT9" in any letter case, or
\* "IT" followed by the Thai digit nine.
HasMarker(fullName) ==
    \E i \in 1..(Len(fullName) - 2) :
        /\ CharAt(fullName, i) \in {"I", "i"}
        /\ CharAt(fullName, i + 1) \in {"T", "t"}
        /\ CharAt(fullName, i + 2) \in {"9", ThaiNine}

\* C10: a disambiguated duplicate (k-th occurrence, k >= 2) gets the family
\* label "<family> (Variant <k-1>)", unless its full name carries the marker:
\* then the label is "<family> (IT9)", which takes priority.
C10_DuplicateFamilyLabel ==
    queried =>
        \A i \in 1..Len(localFonts) :
            Occurrence(i) >= 2 =>
                localFonts[i].family =
                    IF HasMarker(platformFonts[i].fullName)
                    THEN platformFonts[i].family \o " (IT9)"
                    ELSE platformFonts[i].family \o " (Variant "
                             \o ToString(Occurrence(i) - 1) \o ")"

C10_Witness ==
    /\ queried
    /\ Len(localFonts) = 3
    /\ localFonts[2].postscriptName = "A#1"
    /\ localFonts[2].family = "F (IT9)"
    /\ localFonts[3].postscriptName = "A#2"
    /\ localFonts[3].family = "F (Variant 2)"

\* The position in the snapshot of the k-th font (k >= 1) whose raw postscript
\* name is raw, or 0 when there are fewer than k.
KthOccurrence(raw, k) ==
    LET at == {i \in 1..Len(platformFonts) :
                  /\ platformFonts[i].postscriptName = raw
                  /\ Cardinality({j \in 1..i :
                         platformFonts[j].postscriptName = raw}) = k}
    IN IF at = {} THEN 0 ELSE CHOOSE i \in at : TRUE

RawNames == {"A", "B", "A#1", "Z"}

\* The call loadFontData(raw#n) has returned the font of platform entry i.
ResolvedTo(i) ==
    /\ loaded # Null
    /\ loaded[1].data = platformFonts[i].blob
    /\ loaded[1].fullName = platformFonts[i].fullName
    /\ loaded[1].family = platformFonts[i].family

\* C11: loadFontData("<raw>#<n>") resolves to the (n+1)-th font, in discovery
\* order, whose raw postscript name is <raw>; a name without a "#<digits>"
\* suffix resolves to the first exact match.
C11_LoadResolvesNthDuplicate ==
    /\ \A raw \in RawNames : \A n \in 0..MaxFonts :
          (requested = raw \o "#" \o ToString(n) /\ KthOccurrence(raw, n + 1) # 0)
              => ResolvedTo(KthOccurrence(raw, n + 1))
    /\ (requested \in {"A", "B", "Z", "B#x"} /\ KthOccurrence(requested, 1) # 0)
          => ResolvedTo(KthOccurrence(requested, 1))

C11_Witness ==
    /\ requested = "A#2"
    /\ Len(platformFonts) = 3
    /\ \A i \in 1..3 : platformFonts[i].postscriptName = "A"
    /\ loaded # Null
    /\ loaded[1].data = platformFonts[3].blob

(***************************************************************************)
(* FontPlugin (font-plugin.ts) and its reducer (index.ts).                 *)
(***************************************************************************)
FontAction(type, fonts, flag, font) ==
    [type |-> type, fonts |-> fonts, flag |-> flag, font |-> font]
SET_FONTS(fonts) == FontAction("SET_FONTS", fonts, FALSE, Null)
SET_PERMISSION(hasPermission) == FontAction("SET_PERMISSION", <<>>, hasPermission, Null)
SET_LOADING(isLoading) == FontAction("SET_LOADING", <<>>, isLoading, Null)
ADD_LOADED_FONT(font) == FontAction("ADD_LOADED_FONT", <<>>, FALSE, Some(font))

reducer(st, action) ==
    CASE action.type = "SET_FONTS" -> [st EXCEPT !.localFonts = action.fonts]
      [] action.type = "SET_PERMISSION" -> [st EXCEPT !.hasPermission = action.flag]
      [] action.type = "SET_LOADING" -> [st EXCEPT !.isLoading = action.flag]
      [] action.type = "ADD_LOADED_FONT" ->
            [st EXCEPT !.loadedFonts =
                MapSet(@, action.font[1].postscriptName, action.font[1])]
      [] OTHER -> st

RECURSIVE dispatch(_, _)
dispatch(st, actions) ==
    IF actions = <<>> THEN st ELSE dispatch(reducer(st, Head(actions)), Tail(actions))

\* Events of the four emitters.
FontEvent(type, fonts, font, postscriptName, error) ==
    [type |-> type, fonts |-> fonts, font |-> font,
     postscriptName |-> postscriptName, error |-> error]
AccessGranted(fonts) == FontEvent("font:access-granted", fonts, Null, "", "")
AccessDenied(error) == FontEvent("font:access-denied", <<>>, Null, "", error)
FontLoaded(font) == FontEvent("font:loaded", <<>>, Some(font), "", "")
FontLoadError(postscriptName, error) ==
    FontEvent("font:load-error", <<>>, Null, postscriptName, error)

Unsupported == "Local Font Access API is not supported"
Denied == "Font access was denied by the user"
ReadFailed == "blob() failed"

\* capability.getLoadedFont / isFontLoaded
getLoadedFont(postscriptName) ==
    IF MapHas(fontState.loadedFonts, postscriptName)
    THEN Some(fontState.loadedFonts[postscriptName]) ELSE Null
isFontLoaded(postscriptName) == MapHas(fontState.loadedFonts, postscriptName)

Returned(op, arg, value, fonts, events, queries) ==
    [op |-> op, arg |-> arg, outcome |-> "returned", value |-> value, fonts |-> fonts,
     error |-> "", events |-> events, platformQueries |-> queries,
     again |-> arg \in everLoaded]
Threw(op, arg, error, events, queries) ==
    [op |-> op, arg |-> arg, outcome |-> "threw", value |-> Null, fonts |-> <<>>,
     error |-> error, events |-> events, platformQueries |-> queries,
     again |-> arg \in everLoaded]

PluginFrame ==
    /\ UNCHANGED <<isSupported, fontVars, exportVars, pureVars, composeVars, concurrentVars, selectorVars, drawVars>>

\* A request that raises the loading flag before it probes the platform.
RequestFontAccessUnsupported_LoadingFirst ==
    /\ ~isSupported
    /\ fontState' = dispatch(fontState, <<SET_LOADING(TRUE)>>)
    /\ lastCall' = Threw("requestFontAccess", "", Unsupported,
                         <<AccessDenied(Unsupported)>>, 0)
    /\ UNCHANGED everLoaded
    /\ PluginFrame

\* requestFontAccess() without the Local Font Access API.
RequestFontAccessUnsupported ==
    /\ ~isSupported
    /\ lastCall' = Threw("requestFontAccess", "", Unsupported,
                         <<AccessDenied(Unsupported)>>, 0)
    /\ UNCHANGED <<fontState, everLoaded>>
    /\ PluginFrame

\* A grant that stores the descriptors but leaves the permission flag alone.
RequestFontAccessGranted_NoPermission ==
    /\ isSupported
    /\ \E fonts \in {queryLocalFonts(platformFonts)} :
        /\ fontState' = dispatch(fontState, <<SET_LOADING(TRUE), SET_FONTS(fonts),
                                              SET_LOADING(FALSE)>>)
        /\ lastCall' = Returned("requestFontAccess", "", Null, fonts,
                                <<AccessGranted(fonts)>>, 1)
    /\ UNCHANGED everLoaded
    /\ PluginFrame

\* requestFontAccess(), the user grants access.
RequestFontAccessGranted ==
    /\ isSupported
    /\ \E fonts \in {queryLocalFonts(platformFonts)} :
        /\ fontState' = dispatch(fontState, <<SET_LOADING(TRUE), SET_FONTS(fonts),
                                      SET_PERMISSION(TRUE), SET_LOADING(FALSE)>>)
        /\ lastCall' = Returned("requestFontAccess", "", Null, fonts,
                                <<AccessGranted(fonts)>>, 1)
    /\ UNCHANGED everLoaded
    /\ PluginFrame

\* requestFontAccess(), the user refuses (NotAllowedError).
RequestFontAccessDenied ==
    /\ isSupported
    /\ fontState' = dispatch(fontState, <<SET_LOADING(TRUE), SET_PERMISSION(FALSE),
                                  SET_LOADING(FALSE)>>)
    /\ lastCall' = Threw("requestFontAccess", "", Denied, <<AccessDenied(Denied)>>, 1)
    /\ UNCHANGED everLoaded
    /\ PluginFrame

\* loadFont(postscriptName), already loaded.
LoadFontCached(postscriptName) ==
    /\ MapHas(fontState.loadedFonts, postscriptName)
    /\ lastCall' = Returned("loadFont", postscriptName,
                            Some(fontState.loadedFonts[postscriptName]), <<>>, <<>>, 0)
    /\ everLoaded' = everLoaded \cup {postscriptName}
    /\ UNCHANGED fontState
    /\ PluginFrame

\* A loadFont that publishes the font without adding it to the load cache.
LoadFontRead_EmitOnly(postscriptName) ==
    /\ ~MapHas(fontState.loadedFonts, postscriptName)
    /\ isSupported
    /\ \E font \in {loadFontData(platformFonts, postscriptName)} :
        IF font # Null
        THEN /\ lastCall' = Returned("loadFont", postscriptName, font, <<>>,
                                     <<FontLoaded(font[1])>>, 1)
             /\ everLoaded' = everLoaded \cup {postscriptName}
             /\ UNCHANGED fontState
        ELSE /\ lastCall' = Returned("loadFont", postscriptName, Null, <<>>, <<>>, 1)
             /\ UNCHANGED <<fontState, everLoaded>>
    /\ PluginFrame

\* loadFont(postscriptName), loadFontData returns a font or null.
LoadFontRead(postscriptName) ==
    /\ ~MapHas(fontState.loadedFonts, postscriptName)
    /\ isSupported
    /\ \E font \in {loadFontData(platformFonts, postscriptName)} :
        IF font # Null
        THEN /\ fontState' = dispatch(fontState, <<ADD_LOADED_FONT(font[1])>>)
             /\ lastCall' = Returned("loadFont", postscriptName, font, <<>>,
                                     <<FontLoaded(font[1])>>, 1)
             /\ everLoaded' = everLoaded \cup {postscriptName}
        ELSE /\ lastCall' = Returned("loadFont", postscriptName, Null, <<>>, <<>>, 1)
             /\ UNCHANGED <<fontState, everLoaded>>
    /\ PluginFrame

\* loadFont(postscriptName), loadFontData throws: no API, the platform query
\* is refused, or reading the blob fails.
LoadFontThrew(postscriptName) ==
    /\ ~MapHas(fontState.loadedFonts, postscriptName)
    /\ \E error \in {Unsupported, Denied, ReadFailed} :
        /\ (error = Unsupported) <=> ~isSupported
        /\ error = ReadFailed => loadFontData(platformFonts, postscriptName) # Null
        /\ lastCall' = Returned("loadFont", postscriptName, Null, <<>>,
                                <<FontLoadError(postscriptName, error)>>,
                                IF error = Unsupported THEN 0 ELSE 1)
    /\ UNCHANGED <<fontState, everLoaded>>
    /\ PluginFrame

PluginNames == {"A", "A#1", "B", "Z"}

\* The plugin is exercised on platforms with at most MaxInstalled fonts.
MaxInstalled == 2
PluginSnapshots == {s \in Snapshots : Len(s) <= MaxInstalled}

InitPlugin ==
    /\ InitExportIdle
    /\ byUid = <<>>
    /\ fontDataStore = {}
    /\ platformFonts \in PluginSnapshots
    /\ localFonts = <<>>
    /\ queried = FALSE
    /\ requested = ""
    /\ loaded = Null
    /\ grouped = <<>>
    /\ InitPureIdle
    /\ InitComposeIdle
    /\ isSupported \in BOOLEAN
    /\ fontState = initialState
    /\ lastCall = NoCall
    /\ everLoaded = {}
    /\ InitConcurrentIdle
    /\ InitSelectorIdle
    /\ InitDrawIdle

NextPlugin ==
    \/ RequestFontAccessUnsupported
    \/ RequestFontAccessGranted
    \/ RequestFontAccessDenied
    \/ \E n \in PluginNames : LoadFontCached(n)
    \/ \E n \in PluginNames : LoadFontRead(n)
    \/ \E n \in PluginNames : LoadFontThrew(n)

SpecPlugin == InitPlugin /\ [][NextPlugin]_vars

\* Sum of the lengths of the groups.
RECURSIVE GroupedCount(_)
GroupedCount(labels) ==
    IF labels = {} THEN 0
    ELSE LET l == CHOOSE x \in labels : TRUE
         IN Len(grouped[l]) + GroupedCount(labels \ {l})

\* C15: groupFontsByFamily maps each family label to exactly the descriptors
\* carrying that label, in input order; every descriptor is in exactly one
\* group exactly once and no group is empty.
C15_GroupsPartitionInOrder ==
    (queried /\ (grouped # <<>> \/ localFonts = <<>>)) =>
        /\ DOMAIN grouped = {localFonts[i].family : i \in DOMAIN localFonts}
        /\ \A label \in DOMAIN grouped :
              /\ grouped[label] = SelectSeq(localFonts, LAMBDA f : f.family = label)
              /\ grouped[label] # <<>>
        /\ GroupedCount(DOMAIN grouped) = Len(localFonts)

C15_Witness ==
    /\ Len(localFonts) = 3
    /\ Cardinality(DOMAIN grouped) = 2
    /\ \E label \in DOMAIN grouped :
          grouped[label] = <<localFonts[1], localFonts[3]>>

(***************************************************************************)
(* Claims about the plugin.                                                *)
(***************************************************************************)
\* The platform holds no font that the name designates.
NoMatch(postscriptName) ==
    KthOccurrence(TargetPsName(postscriptName), TargetIndex(postscriptName) + 1) = 0

EventTypes(call) == {call.events[i].type : i \in DOMAIN call.events}

\* C12: a loadFont call whose name matches no installed font returns null
\* without throwing, adds nothing to the load cache and publishes no
\* font:loaded event.
C12_NoMatchReturnsNull ==
    [][(lastCall'.op = "loadFont" /\ NoMatch(lastCall'.arg))
          => /\ lastCall'.outcome = "returned"
             /\ lastCall'.value = Null
             /\ fontState'.loadedFonts = fontState.loadedFonts
             /\ "font:loaded" \notin EventTypes(lastCall')]_vars

C12_Witness ==
    /\ lastCall.op = "loadFont"
    /\ lastCall.arg = "A#1"
    /\ Len(platformFonts) = 2
    /\ platformFonts[1].postscriptName = "A"
    /\ platformFonts[2].postscriptName = "B"
    /\ lastCall.platformQueries = 1
    /\ lastCall.value = Null
    /\ lastCall.events = <<>>

(***************************************************************************)
(* parseFontStyle on style names built from the usual weight words.        *)
(***************************************************************************)
StyleWords ==
    {"Thin", "Hairline", "ExtraLight", "Extra Light", "UltraLight", "Ultra Light",
     "Light", "SemiBold", "Semi Bold", "DemiBold", "Demi Bold", "ExtraBold",
     "Extra Bold", "UltraBold", "Ultra Bold", "Bold", "Black", "Heavy", "Medium",
     "Regular", "Italic", "Oblique"}

MaxWords == 2

RECURSIVE JoinWords(_)
JoinWords(words) ==
    IF words = <<>> THEN ""
    ELSE IF Len(words) = 1 THEN words[1]
    ELSE words[1] \o " " \o JoinWords(Tail(words))

Styles == {JoinWords(w) : w \in UNION {[1..n -> StyleWords] : n \in 0..MaxWords}}

ParseFontStyle ==
    /\ parsedStyle = Null
    /\ parsedStyle' = Some(parseFontStyle(styleArgs.style, styleArgs.fullName))
    /\ UNCHANGED <<styleArgs, buffer, fontType>>
    /\ UNCHANGED <<exportVars, fontVars, pluginVars, composeVars, concurrentVars,
                   selectorVars, drawVars>>

InitStyle ==
    /\ InitExportIdle
    /\ byUid = <<>>
    /\ fontDataStore = {}
    /\ InitFontsIdle
    /\ InitPluginIdle
    /\ InitComposeIdle
    /\ \E style \in Styles :
          styleArgs \in {[style |-> style, fullName |-> "Foo"],
                         [style |-> style, fullName |-> "Foo " \o style]}
    /\ parsedStyle = Null
    /\ buffer = <<>>
    /\ fontType = ""
    /\ InitConcurrentIdle
    /\ InitSelectorIdle
    /\ InitDrawIdle

SpecStyle == InitStyle /\ [][ParseFontStyle]_vars

\* A weight word in any of its spellings: joined, spaced or hyphenated.
HasWord(s, first, second) ==
    \/ includes(s, first \o second)
    \/ includes(s, first \o " " \o second)
    \/ includes(s, first \o "-" \o second)

\* The weight table of the claim, checked in its order.
TableWeight(s) ==
    IF includes(s, "thin") \/ includes(s, "hairline") THEN 100
    ELSE IF HasWord(s, "extra", "light") \/ HasWord(s, "ultra", "light") THEN 200
    ELSE IF includes(s, "light") THEN 300
    ELSE IF HasWord(s, "semi", "bold") \/ HasWord(s, "demi", "bold") THEN 600
    ELSE IF HasWord(s, "extra", "bold") \/ HasWord(s, "ultra", "bold") THEN 800
    ELSE IF includes(s, "bold") THEN 700
    ELSE IF includes(s, "black") \/ includes(s, "heavy") THEN 900
    ELSE IF includes(s, "medium") THEN 500
    ELSE 400

\* C13: parseFontStyle returns the weight of the first row of the table
\* thin/hairline 100, extra-light/ultra-light 200, light 300, semibold/demibold
\* 600, extra-bold/ultra-bold 800, bold 700, black/heavy 900, medium 500,
\* otherwise 400, whose word occurs in the lower-cased style and full name.
C13_WeightTable ==
    parsedStyle # Null =>
        \E s \in {toLowerCase(styleArgs.style \o " " \o styleArgs.fullName)} :
            parsedStyle[1].weight = TableWeight(s)

(***************************************************************************)
(* detectFontType on short byte buffers.                                   *)
(***************************************************************************)
\* "%", "!", 0x00 and "O" (of "OTTO").
ByteValues == {37, 33, 0, 79}
MaxBytes == 4
Buffers == UNION {[1..n -> ByteValues] : n \in 0..MaxBytes}

DetectFontType ==
    /\ fontType = ""
    /\ fontType' = detectFontType(buffer)
    /\ UNCHANGED <<styleArgs, parsedStyle, buffer>>
    /\ UNCHANGED <<exportVars, fontVars, pluginVars, composeVars, concurrentVars,
                   selectorVars, drawVars>>

InitDetect ==
    /\ InitExportIdle
    /\ byUid = <<>>
    /\ fontDataStore = {}
    /\ InitFontsIdle
    /\ InitPluginIdle
    /\ InitComposeIdle
    /\ styleArgs = [style |-> "", fullName |-> ""]
    /\ parsedStyle = Null
    /\ buffer \in Buffers
    /\ fontType = ""
    /\ InitConcurrentIdle
    /\ InitSelectorIdle
    /\ InitDrawIdle

SpecDetect == InitDetect /\ [][DetectFontType]_vars

StartsWithPercentBang == Len(buffer) >= 2 /\ buffer[1] = 37 /\ buffer[2] = 33

\* C14 as stated: Type1 for every buffer whose first two bytes are 0x25 0x21,
\* TrueType for every other buffer.
C14_Type1IffSignature ==
    fontType # "" =>
        fontType = IF StartsWithPercentBang THEN "Type1" ELSE "TrueType"

\* C14, amended: Type1 exactly for the buffers of at least four bytes whose
\* first two bytes are 0x25 0x21; TrueType for every other buffer, which
\* includes every buffer shorter than four bytes whatever its first bytes.
C14_Type1IffSignatureAndLength ==
    fontType # "" =>
        fontType = IF Len(buffer) >= 4 /\ StartsWithPercentBang
                   THEN "Type1" ELSE "TrueType"

C14_Witness ==
    /\ Len(buffer) = 3
    /\ StartsWithPercentBang
    /\ fontType = "TrueType"

C17_RequestFontAccess ==
    lastCall.op = "requestFontAccess" =>
        /\ lastCall.outcome = "returned" =>
              \E fonts \in {queryLocalFonts(platformFonts)} :
                  /\ fontState.localFonts = fonts
                  /\ lastCall.fonts = fonts
                  /\ fontState.hasPermission
                  /\ lastCall.events = <<AccessGranted(fonts)>>
        /\ (isSupported /\ lastCall.outcome = "threw") =>
              /\ lastCall.error = Denied
              /\ lastCall.events = <<AccessDenied(Denied)>>
              /\ ~fontState.hasPermission

C17_Witness ==
    /\ lastCall.op = "requestFontAccess"
    /\ lastCall.outcome = "returned"
    /\ Len(fontState.localFonts) = 2
    /\ fontState.hasPermission
    /\ lastCall.events = <<AccessGranted(fontState.localFonts)>>

(***************************************************************************)
(* The compositor loop of exportPdfWithCustomAnnotations (pdf-export.ts).  *)
(***************************************************************************)
CustomFontRef2 == [type |-> "custom", postscriptName |-> "F2"]

\* Pages of the base document; page indexes 0..PageCount-1 are valid.
PageCount == 1
MaxComposed == 3

ComposeKinds ==
    { [type |-> "FREETEXT", fontFamily |-> CustomFontRef],
      [type |-> "FREETEXT", fontFamily |-> CustomFontRef2],
      [type |-> "FREETEXT", fontFamily |-> StandardFontRef],
      [type |-> "UNDERLINE", fontFamily |-> NoFontRef] }

ComposeInputs ==
    UNION { { [i \in 1..n |-> [id |-> i, pageIndex |-> p[i], type |-> k[i].type,
                               fontFamily |-> k[i].fontFamily]] :
                k \in [1..n -> ComposeKinds], p \in [1..n -> 0..PageCount] }
            : n \in 0..MaxComposed }

\* A font binary either parses ("ok") or makes pdfDoc.embedFont throw.
FontBinaries == {"ok", "malformed"}
FontDataMaps ==
    UNION { [names -> FontBinaries] :
                names \in SUBSET {CustomFontRef.postscriptName,
                                  CustomFontRef2.postscriptName} }

\* An embedFont that accepts every binary.
embedFontThrows_Never(fontData) == FALSE

embedFontThrows(fontData) == fontData = "malformed"

\* fontDataMap.get(name): the binary, or undefined.
fontDataMapGet(name) ==
    IF MapHas(composeFonts, name) THEN composeFonts[name] ELSE "undefined"

\* A free-text branch without the `if (!fontData)` test.
ReachesFontLookup_NoDataCheck(anno) ==
    /\ anno.pageIndex >= 0 /\ anno.pageIndex < PageCount
    /\ isFreeTextAnnotation(anno)
    /\ ~isStandardFontRef(anno.fontFamily)
    /\ isCustomFontRef(anno.fontFamily)

\* The free-text branch reaches the embedded-font lookup.
ReachesFontLookup(anno) ==
    /\ anno.pageIndex >= 0 /\ anno.pageIndex < PageCount
    /\ isFreeTextAnnotation(anno)
    /\ ~isStandardFontRef(anno.fontFamily)
    /\ isCustomFontRef(anno.fontFamily)
    /\ fontDataMapGet(anno.fontFamily.postscriptName) # "undefined"

\* One iteration of `for (const anno of annotations)`.
ProcessAnnotation ==
    /\ ~saved
    /\ annoIndex <= Len(composeAnnos)
    /\ annoIndex' = annoIndex + 1
    /\ LET anno == composeAnnos[annoIndex]
           name == anno.fontFamily.postscriptName
       IN IF anno.pageIndex < 0 \/ anno.pageIndex >= PageCount
          THEN UNCHANGED <<embeddedFonts, embedCalls, drawnIds>>
          ELSE IF isFreeTextAnnotation(anno)
          THEN IF ~ReachesFontLookup(anno)
               THEN UNCHANGED <<embeddedFonts, embedCalls, drawnIds>>
               ELSE IF name \in embeddedFonts
               THEN /\ drawnIds' = Append(drawnIds, anno.id)
                    /\ UNCHANGED <<embeddedFonts, embedCalls>>
               ELSE /\ embedCalls' = Append(embedCalls, name)
                    /\ IF embedFontThrows(fontDataMapGet(name))
                       THEN UNCHANGED <<embeddedFonts, drawnIds>>
                       ELSE /\ embeddedFonts' = embeddedFonts \cup {name}
                            /\ drawnIds' = Append(drawnIds, anno.id)
          ELSE IF \/ isUnderlineAnnotation(anno)
                  \/ isStrikeOutAnnotation(anno)
                  \/ isSquigglyAnnotation(anno)
          THEN /\ drawnIds' = Append(drawnIds, anno.id)
               /\ UNCHANGED <<embeddedFonts, embedCalls>>
          ELSE UNCHANGED <<embeddedFonts, embedCalls, drawnIds>>
    /\ UNCHANGED <<composeAnnos, composeFonts, saved>>
    /\ UNCHANGED <<exportVars, fontVars, pluginVars, pureVars, concurrentVars,
                   selectorVars, drawVars>>

\* return pdfDoc.save()
SaveDocument ==
    /\ ~saved
    /\ annoIndex > Len(composeAnnos)
    /\ saved' = TRUE
    /\ UNCHANGED <<composeAnnos, composeFonts, annoIndex, embeddedFonts, embedCalls,
                   drawnIds>>
    /\ UNCHANGED <<exportVars, fontVars, pluginVars, pureVars, concurrentVars,
                   selectorVars, drawVars>>

InitCompose ==
    /\ InitExportIdle
    /\ byUid = <<>>
    /\ fontDataStore = {}
    /\ InitFontsIdle
    /\ InitPluginIdle
    /\ InitPureIdle
    /\ composeAnnos \in ComposeInputs
    /\ composeFonts \in FontDataMaps
    /\ annoIndex = 1
    /\ embeddedFonts = {}
    /\ embedCalls = <<>>
    /\ drawnIds = <<>>
    /\ saved = FALSE
    /\ InitConcurrentIdle
    /\ InitSelectorIdle
    /\ InitDrawIdle

NextCompose == ProcessAnnotation \/ SaveDocument

SpecCompose == InitCompose /\ [][NextCompose]_vars

EmbedCallsFor(name) == Cardinality({i \in DOMAIN embedCalls : embedCalls[i] = name})

\* Annotations of the run that are free text in custom font name, lie on a
\* valid page and have their font binary in the font-data map.
UsersOf(name) ==
    {i \in DOMAIN composeAnnos :
        /\ ReachesFontLookup(composeAnnos[i])
        /\ composeAnnos[i].fontFamily.postscriptName = name}

\* C18: in a finished run, two free-text annotations that share a custom font
\* postscript name have caused exactly one embed call for that name.
C18_SharedFontEmbeddedOnce ==
    saved => \A name \in DOMAIN composeFonts :
                Cardinality(UsersOf(name)) >= 2 => EmbedCallsFor(name) = 1

\* C20: at any point of a run, pdfDoc.embedFont has been invoked at most once
\* per font postscript name.
C20_EmbedAtMostOncePerName ==
    \A name \in DOMAIN composeFonts : EmbedCallsFor(name) <= 1

\* C19: a loadFont call for a name for which an earlier loadFont call returned
\* a font returns a font without a platform query, and no step removes a key
\* from the load cache.
C19_LoadedOnceServedFromCache ==
    [][/\ (lastCall'.op = "loadFont" /\ lastCall'.again)
             => /\ lastCall'.value # Null
                /\ lastCall'.platformQueries = 0
       /\ DOMAIN fontState.loadedFonts \subseteq DOMAIN fontState'.loadedFonts]_vars

(***************************************************************************)
(* Claims about what a compositor run draws.                               *)
(***************************************************************************)
OnValidPage(anno) == anno.pageIndex >= 0 /\ anno.pageIndex < PageCount

IsCustomFreeText(anno) == anno.type = "FREETEXT" /\ anno.fontFamily.type = "custom"

\* The annotation is free text in a custom font whose binary does not embed.
UsesFailingFont(anno) ==
    /\ OnValidPage(anno)
    /\ IsCustomFreeText(anno)
    /\ anno.fontFamily.postscriptName \in DOMAIN composeFonts
    /\ composeFonts[anno.fontFamily.postscriptName] = "malformed"

\* The annotation is free text in a custom font with no binary in the map.
UsesMissingFont(anno) ==
    /\ IsCustomFreeText(anno)
    /\ anno.fontFamily.postscriptName \notin DOMAIN composeFonts

\* The annotation can be drawn: a text markup, or free text in a custom font
\* whose binary is in the map and embeds.
Drawable(anno) ==
    /\ OnValidPage(anno)
    /\ \/ anno.type \in {"UNDERLINE", "STRIKEOUT", "SQUIGGLY"}
       \/ /\ IsCustomFreeText(anno)
          /\ anno.fontFamily.postscriptName \in DOMAIN composeFonts
          /\ composeFonts[anno.fontFamily.postscriptName] = "ok"

Drawn(i) == composeAnnos[i].id \in Range(drawnIds)

\* C21: in a run with a font that fails to embed, no annotation using that
\* font is ever drawn, and the run still reaches save() with every other
\* drawable annotation drawn.
C21_EmbedFailureSkipsOnlyThatFont ==
    (\E i \in DOMAIN composeAnnos : UsesFailingFont(composeAnnos[i])) =>
        /\ \A i \in DOMAIN composeAnnos : UsesFailingFont(composeAnnos[i]) => ~Drawn(i)
        /\ annoIndex > Len(composeAnnos) =>
              \A i \in DOMAIN composeAnnos : Drawable(composeAnnos[i]) => Drawn(i)

C21_Witness ==
    /\ saved
    /\ \E i, j \in DOMAIN composeAnnos :
          /\ i < j
          /\ UsesFailingFont(composeAnnos[i]) /\ ~Drawn(i)
          /\ IsCustomFreeText(composeAnnos[j]) /\ Drawn(j)

\* C22: in a run with a free-text annotation whose custom font has no binary
\* in the font-data map, that annotation is never drawn and its font is never
\* embedded, and the finished run has drawn exactly the drawable annotations,
\* in input order.
C22_MissingFontSkipped ==
    (\E i \in DOMAIN composeAnnos : UsesMissingFont(composeAnnos[i])) =>
        /\ \A i \in DOMAIN composeAnnos :
              UsesMissingFont(composeAnnos[i]) =>
                  /\ ~Drawn(i)
                  /\ composeAnnos[i].fontFamily.postscriptName \notin Range(embedCalls)
        /\ saved =>
              drawnIds = [k \in DOMAIN SelectSeq(composeAnnos, Drawable) |->
                              SelectSeq(composeAnnos, Drawable)[k].id]

C22_Witness ==
    /\ saved
    /\ \E i, j \in DOMAIN composeAnnos :
          /\ i < j
          /\ OnValidPage(composeAnnos[i])
          /\ UsesMissingFont(composeAnnos[i]) /\ ~Drawn(i)
          /\ Drawn(j)

(***************************************************************************)
(* Further claims about one export call, checked under Spec.               *)
(***************************************************************************)
CountCalls(op, id) == Cardinality({j \in DOMAIN calls : calls[j] = Call(op, id)})

\* C23: the engine mutations of an export are one deleteAnnotation per
\* custom-render record and importAnnotations of those records only: a
\* native-render annotation gets neither call, nothing is imported that was
\* not deleted, nothing is imported twice, and the records handed back are
\* the whole records read before the deletion.
C23_OnlyDeleteAndReimportCustom ==
    pc # "Idle" =>
        /\ \A a \in Range(customRenderAnnotations) :
              CountCalls("deleteAnnotation", a.id) = 1
        /\ \A a \in before \ Range(customRenderAnnotations) :
              /\ CountCalls("deleteAnnotation", a.id) = 0
              /\ CountCalls("importAnnotations", a.id) = 0
        /\ CallsOf(calls, "importAnnotations") \subseteq CallsOf(calls, "deleteAnnotation")
        /\ \A a \in before : CountCalls("importAnnotations", a.id) <= 1
        /\ Range(customRenderAnnotations) \subseteq before

C23_Witness ==
    /\ Settled
    /\ \E a, b \in before :
          /\ a \in Range(customRenderAnnotations)
          /\ b \notin Range(customRenderAnnotations)
          /\ CountCalls("deleteAnnotation", a.id) = 1
          /\ CountCalls("importAnnotations", a.id) = 1

\* One export call whose awaited promises all settle: the 100 ms timer fires,
\* the engine's export task resolves or rejects, the compositor returns or
\* throws.
SpecLive ==
    /\ Spec
    /\ WF_vars(SettleElapsed)
    /\ WF_vars(BaseExportResolve \/ BaseExportReject)
    /\ WF_vars(CompositeReturn \/ CompositeThrow)

\* C26: an export that has started its pipeline eventually settles, and a
\* settled export has isExporting false, whichever stage failed.
C26_EventuallySettlesFlagCleared ==
    /\ [](Settled => ~isExporting)
    /\ (pc # "Idle") ~> (Settled /\ ~isExporting)

C26_Witness ==
    /\ Settled
    /\ thrown = "CompositingFailure"
    /\ ~isExporting
    /\ "deleteAnnotation" \in Ops(calls)

(***************************************************************************)
(* Two export components on one document.  The nextjs example has both     *)
(* ExportButton (annotation-toolbar.tsx 335) and DocumentMenu; each keeps  *)
(* its own isExporting in useState.  The primary engine applies a          *)
(* deleteAnnotation some time after the call returns.                      *)
(***************************************************************************)
\* Largest document of the two-component specification.
MaxShared == 2

Mounted == {"ExportButton", "DocumentMenu"}

SharedDocuments == {d \in Documents : Len(d) <= MaxShared}

IdleExport ==
    [pc |-> "Idle", isExporting |-> FALSE, customRenderAnnotations |-> <<>>,
     basePdfBytes |-> NoBytes, overlapped |-> FALSE]

InFlight(c) == exports[c].pc \in {"Removing", "BaseExporting", "Compositing"}

\* Another component's export currently has annotations taken out of byUid.
OthersHaveRemoved(c) ==
    \E d \in Mounted \ {c} : InFlight(d) /\ exports[d].customRenderAnnotations # <<>>

\* What the engine's export task renders: the annotations byUid holds and
\* those whose deletion it has not applied yet.
saveAsCopyPending(state, pending) ==
    [saveAsCopy(state) EXCEPT !.rendered = @ \cup pending]

\* The click on component c.  ExportButton's button is disabled while its
\* own isExporting is true; DocumentMenu's handler returns at its guard.
MountedStart(c) ==
    /\ ~exports[c].isExporting
    /\ LET custom == SelectSeq(byUid, LAMBDA a : Classify(c, a)) IN
        /\ byUid' = DeleteEach(byUid, custom)
        /\ unprocessed' = unprocessed \cup Ids(custom)
        /\ exports' = [exports EXCEPT ![c] =
               [pc |-> IF Len(custom) > 0 THEN "Removing" ELSE "BaseExporting",
                isExporting |-> TRUE,
                customRenderAnnotations |-> custom,
                basePdfBytes |-> NoBytes,
                overlapped |-> OthersHaveRemoved(c)]]
    /\ UNCHANGED <<component, pc, isExporting, fontDataStore, customRenderAnnotations,
                   basePdfBytes, finalPdfBytes, download, thrown, result, calls, before>>
    /\ UNCHANGED <<fontVars, pluginVars, pureVars, composeVars, selectorVars, drawVars>>

\* The engine applies one deletion it was asked for.
EngineProcessDelete ==
    /\ \E id \in unprocessed : unprocessed' = unprocessed \ {id}
    /\ UNCHANGED <<exportVars, exports>>
    /\ UNCHANGED <<fontVars, pluginVars, pureVars, composeVars, selectorVars, drawVars>>

MountedFrame ==
    /\ UNCHANGED <<component, pc, isExporting, fontDataStore, customRenderAnnotations,
                   basePdfBytes, finalPdfBytes, download, thrown, result, calls, before>>
    /\ UNCHANGED <<fontVars, pluginVars, pureVars, composeVars, selectorVars, drawVars>>

\* The 100 ms timer of component c fires.
MountedSettleElapsed(c) ==
    /\ exports[c].pc = "Removing"
    /\ exports' = [exports EXCEPT ![c].pc = "BaseExporting"]
    /\ UNCHANGED <<byUid, unprocessed>>
    /\ MountedFrame

\* exportTask of component c resolves.
MountedBaseExportResolve(c) ==
    /\ exports[c].pc = "BaseExporting"
    /\ exports' = [exports EXCEPT ![c] =
           IF Len(exports[c].customRenderAnnotations) > 0
           THEN [@ EXCEPT !.pc = "Compositing",
                          !.basePdfBytes = saveAsCopyPending(byUid, unprocessed)]
           ELSE [@ EXCEPT !.pc = "Settled", !.isExporting = FALSE,
                          !.basePdfBytes = saveAsCopyPending(byUid, unprocessed)]]
    /\ UNCHANGED <<byUid, unprocessed>>
    /\ MountedFrame

\* exportTask of component c rejects: catch, finally.
MountedBaseExportReject(c) ==
    /\ exports[c].pc = "BaseExporting"
    /\ exports' = [exports EXCEPT ![c].pc = "Settled", ![c].isExporting = FALSE]
    /\ UNCHANGED <<byUid, unprocessed>>
    /\ MountedFrame

\* The compositor of component c returns: reimport loop, download, finally.
MountedCompositeReturn(c) ==
    /\ exports[c].pc = "Compositing"
    /\ byUid' = ImportEach(byUid, exports[c].customRenderAnnotations)
    /\ exports' = [exports EXCEPT ![c].pc = "Settled", ![c].isExporting = FALSE]
    /\ UNCHANGED unprocessed
    /\ MountedFrame

\* The compositor of component c throws: catch, finally.
MountedCompositeThrow(c) ==
    /\ exports[c].pc = "Compositing"
    /\ exports' = [exports EXCEPT ![c].pc = "Settled", ![c].isExporting = FALSE]
    /\ UNCHANGED <<byUid, unprocessed>>
    /\ MountedFrame

InitExports ==
    /\ InitExportIdle
    /\ byUid \in SharedDocuments
    /\ fontDataStore = {}
    /\ exports = [c \in Mounted |-> IdleExport]
    /\ unprocessed = {}
    /\ InitSelectorIdle
    /\ InitDrawIdle
    /\ InitFontsIdle
    /\ InitPluginIdle
    /\ InitPureIdle
    /\ InitComposeIdle

NextExports ==
    \/ \E c \in Mounted : MountedStart(c)
    \/ EngineProcessDelete
    \/ \E c \in Mounted : MountedSettleElapsed(c)
    \/ \E c \in Mounted : MountedBaseExportResolve(c)
    \/ \E c \in Mounted : MountedBaseExportReject(c)
    \/ \E c \in Mounted : MountedCompositeReturn(c)
    \/ \E c \in Mounted : MountedCompositeThrow(c)

SpecExports == InitExports /\ [][NextExports]_vars

\* C24: exports of one document are serialized: no two components have a
\* pipeline in flight at once, and no export classified the annotation set
\* while another export had annotations removed from it.
C24_ExportsSerialized ==
    /\ \A c, d \in Mounted : (InFlight(c) /\ InFlight(d)) => c = d
    /\ \A c \in Mounted : ~exports[c].overlapped

\* C25: whatever the engine's deletion latency, the base export a component
\* hands to the compositor renders none of its custom-render annotations.
C25_BaseExportHasNoCustomRender ==
    \A c \in Mounted :
        exports[c].pc = "Compositing" =>
            exports[c].basePdfBytes.rendered
                \cap Ids(exports[c].customRenderAnnotations) = {}

(***************************************************************************)
(* Further claims about the plugin's load cache, checked under SpecPlugin. *)
(***************************************************************************)
\* C27: after loadFont(n) has returned a font, isFontLoaded(n) is true, and
\* getLoadedFont(n), when defined, is the font loadFont(n) resolves to.
C27_LoadCacheKeyedByRequestedName ==
    /\ (lastCall.op = "loadFont" /\ lastCall.value # Null) => isFontLoaded(lastCall.arg)
    /\ \A n \in PluginNames :
        (getLoadedFont(n) # Null /\ loadFontData(platformFonts, n) # Null)
            => getLoadedFont(n) = loadFontData(platformFonts, n)

(***************************************************************************)
(* Discovery and load together, checked under SpecFonts.                   *)
(***************************************************************************)
\* C28: for every descriptor d that queryLocalFonts returned,
\* loadFontData(d.postscriptName) returns the binary of the platform entry
\* the descriptor was made from, raw names ending in "#<digits>" included.
C28_DescriptorLoadsItsOwnEntry ==
    queried =>
        \A i \in 1..Len(localFonts) :
            requested = localFonts[i].postscriptName => ResolvedTo(i)

(***************************************************************************)
(* FontSelector (font-selector.tsx): the custom tab.  Each choice of a     *)
(* family or a variant starts one selectCustomFont call; the calls are not *)
(* awaited by the handlers and run concurrently.  The tab state            *)
(* (customFamily, customWeight, isItalic) is what the last handler set.    *)
(***************************************************************************)
\* Most selectCustomFont calls started in one behaviour.
MaxSelections == 2

\* customFontFamilies (useMemo)
customFontFamilies ==
    IF ~queried \/ Len(localFonts) = 0 THEN <<>> ELSE groupFontsByFamily(localFonts)

customFamily ==
    IF selections = <<>> THEN "" ELSE selections[Len(selections)].font.family

\* variants.find(p), as null or the first match.
Find(variants, p(_)) ==
    LET at == {i \in 1..Len(variants) : p(variants[i])} IN
    IF at = {} THEN Null
    ELSE Some(variants[CHOOSE i \in at : \A j \in at : i <= j])

Abs(n) == IF n < 0 THEN -n ELSE n
WeightOr400(v) == IF v.weight = 0 THEN 400 ELSE v.weight

findBestMatch(variants, targetWeight, targetItalic) ==
    LET exact == Find(variants, LAMBDA v :
                     /\ (v.weight = targetWeight \/ (v.weight = 0 /\ targetWeight = 400))
                     /\ v.italic = targetItalic)
        relaxed == Find(variants, LAMBDA v :
                       /\ v.italic = targetItalic
                       /\ Abs(WeightOr400(v) - targetWeight) < 100)
    IN IF exact # Null THEN exact
       ELSE IF relaxed # Null THEN relaxed
       ELSE IF Len(variants) > 0 THEN Some(variants[1]) ELSE Null

SelectorFrame ==
    /\ UNCHANGED <<component, pc, isExporting, byUid, customRenderAnnotations,
                   basePdfBytes, finalPdfBytes, download, thrown, result, calls, before>>
    /\ UNCHANGED <<platformFonts, requested, loaded, grouped>>
    /\ UNCHANGED <<pluginVars, pureVars, composeVars, concurrentVars, drawVars>>

\* handleRequestAccess, access granted.
HandleRequestAccess ==
    /\ ~queried
    /\ localFonts' = queryLocalFonts(platformFonts)
    /\ queried' = TRUE
    /\ UNCHANGED <<fontDataStore, selections, reported>>
    /\ SelectorFrame

\* selectCustomFont(font), up to its first await.
selectCustomFont(font, weight, italic) ==
    /\ Len(selections) < MaxSelections
    /\ selections' = Append(selections,
           [font |-> font, customWeight |-> weight, isItalic |-> italic,
            pc |-> "loadFontData"])
    /\ UNCHANGED <<fontDataStore, reported, localFonts, queried>>
    /\ SelectorFrame

handleCustomFamilyChange(familyName) ==
    /\ MapHas(customFontFamilies, familyName)
    /\ \E bestMatch \in {findBestMatch(customFontFamilies[familyName], 400, FALSE)} :
        /\ bestMatch # Null
        /\ selectCustomFont(bestMatch[1], WeightOr400(bestMatch[1]), bestMatch[1].italic)

handleVariantChange(newWeight, newItalic) ==
    /\ MapHas(customFontFamilies, customFamily)
    /\ \E bestMatch \in {findBestMatch(customFontFamilies[customFamily],
                                       newWeight, newItalic)} :
        /\ bestMatch # Null
        /\ selectCustomFont(bestMatch[1], newWeight, newItalic)

\* The weight select and the italic checkbox of the custom tab.
VariantChanges ==
    IF selections = <<>> \/ ~MapHas(customFontFamilies, customFamily) THEN {}
    ELSE LET last == selections[Len(selections)]
             variants == customFontFamilies[customFamily]
         IN {<<WeightOr400(variants[i]), last.isItalic>> : i \in 1..Len(variants)}
                \cup (IF \E i \in 1..Len(variants) : variants[i].italic
                      THEN {<<last.customWeight, ~last.isItalic>>} ELSE {})

\* onChange(createCustomFontRef(...)), with whether the store held the name.
OnChange(font, store) ==
    Append(reported, [postscriptName |-> font.postscriptName,
                      family |-> font.family,
                      stored |-> font.postscriptName \in store])

\* The rest of selectCustomFont after its last await: catch, finally, onChange.
SelectionDone(k, store) ==
    /\ selections' = [selections EXCEPT ![k].pc = "done"]
    /\ fontDataStore' = store
    /\ reported' = OnChange(selections[k].font, store)
    /\ UNCHANGED <<localFonts, queried>>
    /\ SelectorFrame

\* await loadFontData(font.postscriptName) resolves with a font.
LoadResolved(k) ==
    /\ k \in 1..Len(selections)
    /\ selections[k].pc = "loadFontData"
    /\ loadFontData(platformFonts, selections[k].font.postscriptName) # Null
    /\ selections' = [selections EXCEPT ![k].pc = "fontFace.load"]
    /\ UNCHANGED <<fontDataStore, reported, localFonts, queried>>
    /\ SelectorFrame

\* await loadFontData(font.postscriptName) resolves with null.
LoadNull(k) ==
    /\ k \in 1..Len(selections)
    /\ selections[k].pc = "loadFontData"
    /\ loadFontData(platformFonts, selections[k].font.postscriptName) = Null
    /\ SelectionDone(k, fontDataStore)

\* await loadFontData(font.postscriptName) rejects (query refused, blob unreadable).
LoadRejected(k) ==
    /\ k \in 1..Len(selections)
    /\ selections[k].pc = "loadFontData"
    /\ SelectionDone(k, fontDataStore)

\* await fontFace.load() resolves: document.fonts.add, fontDataStore.set.
FontFaceLoaded(k) ==
    /\ k \in 1..Len(selections)
    /\ selections[k].pc = "fontFace.load"
    /\ SelectionDone(k, fontDataStore \cup {selections[k].font.postscriptName})

\* await fontFace.load() rejects: the browser cannot use the binary.
FontFaceRejected(k) ==
    /\ k \in 1..Len(selections)
    /\ selections[k].pc = "fontFace.load"
    /\ SelectionDone(k, fontDataStore)

InitSelector ==
    /\ InitExportIdle
    /\ byUid = <<>>
    /\ fontDataStore = {}
    /\ platformFonts \in PluginSnapshots
    /\ localFonts = <<>>
    /\ queried = FALSE
    /\ requested = ""
    /\ loaded = Null
    /\ grouped = <<>>
    /\ InitPluginIdle
    /\ InitPureIdle
    /\ InitComposeIdle
    /\ InitConcurrentIdle
    /\ InitSelectorIdle
    /\ InitDrawIdle

NextSelector ==
    \/ HandleRequestAccess
    \/ \E familyName \in DOMAIN customFontFamilies : handleCustomFamilyChange(familyName)
    \/ \E change \in VariantChanges : handleVariantChange(change[1], change[2])
    \/ \E k \in 1..MaxSelections : LoadResolved(k)
    \/ \E k \in 1..MaxSelections : LoadNull(k)
    \/ \E k \in 1..MaxSelections : LoadRejected(k)
    \/ \E k \in 1..MaxSelections : FontFaceLoaded(k)
    \/ \E k \in 1..MaxSelections : FontFaceRejected(k)

SpecSelector == InitSelector /\ [][NextSelector]_vars

AllSelectionsDone == \A k \in 1..Len(selections) : selections[k].pc = "done"

\* C29: whenever a custom font ref is reported through onChange, the font
\* data store already holds the binary for its postscript name.
C29_ReportedFontIsStored ==
    \A k \in 1..Len(reported) : reported[k].stored

\* C30: after the user selected A and then B, and both loads have settled,
\* the last ref reported through onChange is B, whatever order the loads
\* completed in.
C30_LastSelectionReportedLast ==
    (Len(selections) = 2 /\ AllSelectionsDone) =>
        reported[Len(reported)].postscriptName = selections[2].font.postscriptName

(***************************************************************************)
(* Events of loadFont, checked under SpecPlugin.                           *)
(***************************************************************************)
CachedFonts(st) == {st.loadedFonts[k] : k \in DOMAIN st.loadedFonts}

\* C31: a loadFont call that reads a font from the platform publishes
\* font:loaded exactly once, carrying that font, and the font is in the load
\* cache by then; a cache hit and a not-found result publish nothing; a load
\* that throws publishes font:load-error exactly once with the requested
\* name, leaves the cache alone and returns null.
C31_LoadFontEvents ==
    [][\A n \in PluginNames :
        /\ LoadFontRead(n) =>
              IF lastCall'.value # Null
              THEN /\ lastCall'.events = <<FontLoaded(lastCall'.value[1])>>
                   /\ lastCall'.value[1] \in CachedFonts(fontState')
                   /\ lastCall'.value = loadFontData(platformFonts, n)
              ELSE /\ lastCall'.events = <<>>
                   /\ fontState' = fontState
        /\ LoadFontCached(n) =>
              /\ lastCall'.events = <<>>
              /\ lastCall'.value # Null
              /\ fontState' = fontState
        /\ LoadFontThrew(n) =>
              /\ Len(lastCall'.events) = 1
              /\ lastCall'.events[1].type = "font:load-error"
              /\ lastCall'.events[1].postscriptName = n
              /\ fontState' = fontState
              /\ lastCall'.outcome = "returned"
              /\ lastCall'.value = Null
        /\ (lastCall'.op = "loadFont" /\ lastCall'.arg = n /\ ~isSupported
                /\ ~MapHas(fontState.loadedFonts, n))
              => lastCall'.events = <<FontLoadError(n, Unsupported)>>]_vars

C31_Witness ==
    /\ lastCall.op = "loadFont"
    /\ lastCall.arg = "A#1"
    /\ lastCall.platformQueries = 1
    /\ lastCall.value # Null
    /\ lastCall.events = <<FontLoaded(lastCall.value[1])>>
    /\ lastCall.value[1] \in CachedFonts(fontState)

(***************************************************************************)
(* The italic flag of parseFontStyle, checked under SpecStyle.             *)
(***************************************************************************)
LowerStyle == toLowerCase(styleArgs.style \o " " \o styleArgs.fullName)

\* C32: parseFontStyle sets italic exactly when the lower-cased style and
\* full name contain "italic" or "oblique", whatever weight it found.
C32_ItalicIffItalicOrOblique ==
    parsedStyle # Null =>
        (parsedStyle[1].italic <=>
            (includes(LowerStyle, "italic") \/ includes(LowerStyle, "oblique")))

C32_Witness ==
    /\ parsedStyle # Null
    /\ styleArgs.style = "Bold Oblique"
    /\ parsedStyle[1].italic
    /\ parsedStyle[1].weight = 700

(***************************************************************************)
(* What one iteration of the compositor loop draws (pdf-export.ts 97-261). *)
(* Lengths in the page calls are kept in tenths of a PDF unit, so that     *)
(* height / 2, strokeWidth / 2, period / 4 and fontSize * 1.2 are integers.*)
(* An unset (undefined) number is 0 and an unset string is "": both are    *)
(* falsy in the source's `||` and `!` tests.                               *)
(***************************************************************************)
Units(n) == 10 * n

Rect(x, y, w, h) ==
    [origin |-> [x |-> x, y |-> y], size |-> [width |-> w, height |-> h]]

HexDigits == "0123456789ABCDEF"

\* parseInt(s, 16) of a string of hex digits.
RECURSIVE parseIntHex(_)
parseIntHex(s) ==
    IF Len(s) = 0 THEN 0
    ELSE 16 * parseIntHex(SubSeq(s, 1, Len(s) - 1))
         + (CHOOSE d \in 1..16 : CharAt(HexDigits, d) = toUpperCase(CharAt(s, Len(s)))) - 1

\* parseHexColor: the channels as numerators over 255.
parseHexColor(color) ==
    LET at == {i \in 1..Len(color) : CharAt(color, i) = "#"}
        first == IF at = {} THEN 0 ELSE CHOOSE i \in at : \A j \in at : i <= j
        stripped == IF first = 0 THEN color
                    ELSE SubSeq(color, 1, first - 1) \o SubSeq(color, first + 1, Len(color))
        hex == IF Len(stripped) = 3
               THEN CharAt(stripped, 1) \o CharAt(stripped, 1) \o CharAt(stripped, 2)
                    \o CharAt(stripped, 2) \o CharAt(stripped, 3) \o CharAt(stripped, 3)
               ELSE stripped
    IN [r |-> parseIntHex(SubSeq(hex, 1, 2)),
        g |-> parseIntHex(SubSeq(hex, 3, 4)),
        b |-> parseIntHex(SubSeq(hex, 5, 6))]

NoColor == [r |-> -1, g |-> -1, b |-> -1]

\* text.split('\n')
RECURSIVE split(_)
split(text) ==
    LET at == {i \in 1..Len(text) : CharAt(text, i) = "\n"} IN
    IF at = {} THEN <<text>>
    ELSE LET first == CHOOSE i \in at : \A j \in at : i <= j IN
         <<SubSeq(text, 1, first - 1)>> \o split(SubSeq(text, first + 1, Len(text)))

\* One call on the page.  color is the fill (NoColor: undefined).
PageCall(op, x, y, width, height, text, size, color, borderColor, borderWidth, path) ==
    [op |-> op, x |-> x, y |-> y, width |-> width, height |-> height, text |-> text,
     size |-> size, color |-> color, borderColor |-> borderColor,
     borderWidth |-> borderWidth, path |-> path]

drawRectangle(x, y, width, height, color) ==
    PageCall("drawRectangle", x, y, width, height, "", 0, color, NoColor, 0, <<>>)
drawText(line, x, y, size, color) ==
    PageCall("drawText", x, y, 0, 0, line, size, color, NoColor, 0, <<>>)
drawSvgPath(d, x, y, borderColor, borderWidth) ==
    PageCall("drawSvgPath", x, y, 0, 0, "", 0, NoColor, borderColor, borderWidth, d)

\* A text loop that never moves the baseline down.
RECURSIVE DrawLines_FixedBaseline(_, _, _, _, _, _)
DrawLines_FixedBaseline(lines, x, currentY, lineHeight, size, color) ==
    IF lines = <<>> THEN <<>>
    ELSE <<drawText(Head(lines), x + Units(4), currentY, size, color)>>
         \o DrawLines_FixedBaseline(Tail(lines), x, currentY, lineHeight, size, color)

\* for (const line of lines) { page.drawText(...); currentY -= lineHeight }
RECURSIVE DrawLines(_, _, _, _, _, _)
DrawLines(lines, x, currentY, lineHeight, size, color) ==
    IF lines = <<>> THEN <<>>
    ELSE <<drawText(Head(lines), x + Units(4), currentY, size, color)>>
         \o DrawLines(Tail(lines), x, currentY - lineHeight, lineHeight, size, color)

\* The free-text branch once the font is embedded (lines 133-172).
freeTextCalls(anno, pageHeight) ==
    LET x == Units(anno.rect.origin.x)
        y == Units(pageHeight - anno.rect.origin.y - anno.rect.size.height)
        color == parseHexColor(IF anno.fontColor # "" THEN anno.fontColor ELSE "#000000")
        text == anno.contents
        background ==
            IF anno.backgroundColor # "" /\ anno.backgroundColor # "transparent"
            THEN <<drawRectangle(x, y, Units(anno.rect.size.width),
                                 Units(anno.rect.size.height),
                                 parseHexColor(anno.backgroundColor))>>
            ELSE <<>>
        lineHeight == 12 * anno.fontSize
        currentY == y + Units(anno.rect.size.height) - Units(anno.fontSize)
    IN IF text = "" THEN <<>>
       ELSE background
            \o DrawLines(split(text), x, currentY, lineHeight, Units(anno.fontSize), color)

\* anno.strokeWidth || 1 and anno.color || '#FFFF00'
StrokeWidthOf(anno) == IF anno.strokeWidth # 0 THEN anno.strokeWidth ELSE 1
ColorOf(anno) == parseHexColor(IF anno.color # "" THEN anno.color ELSE "#FFFF00")

\* An underline bar as thick as the segment is high.
underlineCalls_SegmentHeight(anno, pageHeight) ==
    [i \in 1..Len(anno.segmentRects) |->
        LET r == anno.segmentRects[i] IN
        drawRectangle(Units(r.origin.x),
                      Units(pageHeight - r.origin.y - r.size.height),
                      Units(r.size.width), Units(r.size.height), ColorOf(anno))]

\* The underline branch (lines 174-196).
underlineCalls(anno, pageHeight) ==
    [i \in 1..Len(anno.segmentRects) |->
        LET r == anno.segmentRects[i] IN
        drawRectangle(Units(r.origin.x),
                      Units(pageHeight - r.origin.y - r.size.height),
                      Units(r.size.width), Units(StrokeWidthOf(anno)), ColorOf(anno))]

\* A strikeout bar whose bottom edge, not its middle, is at mid-height.
strikeOutCalls_BottomAtMid(anno, pageHeight) ==
    [i \in 1..Len(anno.segmentRects) |->
        LET r == anno.segmentRects[i]
            rectBottomY == Units(pageHeight - r.origin.y - r.size.height)
        IN drawRectangle(Units(r.origin.x), rectBottomY + Units(r.size.height) \div 2,
                         Units(r.size.width), Units(StrokeWidthOf(anno)),
                         ColorOf(anno))]

\* The strikeout branch (lines 197-221).
strikeOutCalls(anno, pageHeight) ==
    [i \in 1..Len(anno.segmentRects) |->
        LET r == anno.segmentRects[i]
            rectBottomY == Units(pageHeight - r.origin.y - r.size.height)
            midY == rectBottomY + Units(r.size.height) \div 2
        IN drawRectangle(Units(r.origin.x), midY - Units(StrokeWidthOf(anno)) \div 2,
                         Units(r.size.width), Units(StrokeWidthOf(anno)),
                         ColorOf(anno))]

PathCommand(cmd, args) == [cmd |-> cmd, args |-> args]

\* Math.ceil(width / period) with the rounding left out.
cycles_Floor(width, period) == width \div period

\* Math.ceil(width / period)
cycles(width, period) == -((-width) \div period)

\* `M 0 ${amplitude}` followed by one "q ... t ..." per cycle.
RECURSIVE WavePath(_, _, _)
WavePath(n, period, amplitude) ==
    IF n = 0 THEN <<PathCommand("M", <<0, Units(amplitude)>>)>>
    ELSE WavePath(n - 1, period, amplitude)
         \o <<PathCommand("q", <<Units(period) \div 4, -Units(amplitude),
                                 Units(period) \div 2, 0>>),
              PathCommand("t", <<Units(period) \div 2, 0>>)>>

\* The squiggly branch (lines 222-261).
squigglyCalls(anno, pageHeight) ==
    LET period == 6
        amplitude == StrokeWidthOf(anno)
    IN [i \in 1..Len(anno.segmentRects) |->
           LET r == anno.segmentRects[i] IN
           drawSvgPath(WavePath(cycles(r.size.width, period), period, amplitude),
                       Units(r.origin.x),
                       Units(pageHeight - r.origin.y - r.size.height),
                       ColorOf(anno), Units(StrokeWidthOf(anno)))]

\* Most segment rectangles of one markup annotation.
MaxSegments == 2

PageHeights == {800, 100}
SegmentChoices == {Rect(10, 20, 100, 4), Rect(0, 0, 7, 3), Rect(5, 60, 12, 10)}
TextRects == {Rect(10, 20, 100, 40), Rect(0, 0, 50, 13)}
TextContents == {"", "a", "a\nb", "a\n", "a\n\nb c"}

FreeTextInputs ==
    { [type |-> "FREETEXT", rect |-> r, fontSize |-> f, contents |-> c,
       backgroundColor |-> bg, fontColor |-> fc, segmentRects |-> <<>>,
       strokeWidth |-> 0, color |-> ""] :
        r \in TextRects, f \in {10, 12}, c \in TextContents,
        bg \in {"", "transparent", "#FF0"}, fc \in {"", "#102030"} }

MarkupInputs ==
    { [type |-> t, rect |-> Rect(0, 0, 0, 0), fontSize |-> 0, contents |-> "",
       backgroundColor |-> "", fontColor |-> "", segmentRects |-> segs,
       strokeWidth |-> w, color |-> c] :
        t \in {"UNDERLINE", "STRIKEOUT", "SQUIGGLY"},
        segs \in UNION {[1..n -> SegmentChoices] : n \in 0..MaxSegments},
        w \in {0, 1, 2, 3}, c \in {"", "#f00"} }

\* One iteration of the loop for an annotation on a valid page; embeds says
\* whether the free-text font was found and embedded.
DrawAnnotation ==
    /\ drawPc = "Start"
    /\ drawPc' = "Done"
    /\ LET anno == drawInput.anno
           pageHeight == drawInput.pageHeight
       IN pageCalls' =
            IF isFreeTextAnnotation(anno)
            THEN IF drawInput.embeds THEN freeTextCalls(anno, pageHeight) ELSE <<>>
            ELSE IF isUnderlineAnnotation(anno) THEN underlineCalls(anno, pageHeight)
            ELSE IF isStrikeOutAnnotation(anno) THEN strikeOutCalls(anno, pageHeight)
            ELSE IF isSquigglyAnnotation(anno) THEN squigglyCalls(anno, pageHeight)
            ELSE <<>>
    /\ UNCHANGED drawInput
    /\ UNCHANGED <<exportVars, fontVars, pluginVars, pureVars, composeVars,
                   concurrentVars, selectorVars>>

InitDraw ==
    /\ InitExportIdle
    /\ byUid = <<>>
    /\ fontDataStore = {}
    /\ InitFontsIdle
    /\ InitPluginIdle
    /\ InitPureIdle
    /\ InitComposeIdle
    /\ InitConcurrentIdle
    /\ InitSelectorIdle
    /\ \E anno \in FreeTextInputs \cup MarkupInputs, h \in PageHeights, e \in BOOLEAN :
          /\ (~e => anno.type = "FREETEXT")
          /\ drawInput = [anno |-> anno, pageHeight |-> h, embeds |-> e]
    /\ pageCalls = <<>>
    /\ drawPc = "Start"

SpecDraw == InitDraw /\ [][DrawAnnotation]_vars

(***************************************************************************)
(* Claims about the geometry of the page calls, checked under SpecDraw.    *)
(***************************************************************************)
Drew(type) == drawPc = "Done" /\ drawInput.anno.type = type
SegmentOf(i) == drawInput.anno.segmentRects[i]
\* y' = pageHeight - y - height, in tenths.
ConvertedBottom(r) == Units(drawInput.pageHeight) - Units(r.origin.y) - Units(r.size.height)

\* C33: an underline annotation gets exactly one filled bar per segment
\* rectangle (x, y, w, h), at x, with bottom H - y - h and width w, and with
\* the configured stroke width as its height.
C33_UnderlineBars ==
    Drew("UNDERLINE") =>
        /\ Len(pageCalls) = Len(drawInput.anno.segmentRects)
        /\ \A i \in 1..Len(pageCalls) :
            /\ pageCalls[i].op = "drawRectangle"
            /\ pageCalls[i].color # NoColor
            /\ pageCalls[i].x = Units(SegmentOf(i).origin.x)
            /\ pageCalls[i].y = ConvertedBottom(SegmentOf(i))
            /\ pageCalls[i].width = Units(SegmentOf(i).size.width)
            /\ drawInput.anno.strokeWidth # 0
                  => pageCalls[i].height = Units(drawInput.anno.strokeWidth)

C33_Witness ==
    /\ Drew("UNDERLINE")
    /\ drawInput.pageHeight = 800
    /\ drawInput.anno.strokeWidth = 2
    /\ drawInput.anno.segmentRects = <<Rect(10, 20, 100, 4), Rect(0, 0, 7, 3)>>
    /\ pageCalls[1].y = 7760
    /\ pageCalls[1].height = 20

\* C34: a strikeout annotation gets exactly one filled bar per segment
\* rectangle, of width w and height s, centred on the segment's mid-height:
\* its bottom is (H - y - h) + h/2 - s/2.
C34_StrikeOutBars ==
    Drew("STRIKEOUT") =>
        /\ Len(pageCalls) = Len(drawInput.anno.segmentRects)
        /\ \A i \in 1..Len(pageCalls) :
            /\ pageCalls[i].op = "drawRectangle"
            /\ pageCalls[i].color # NoColor
            /\ pageCalls[i].x = Units(SegmentOf(i).origin.x)
            /\ pageCalls[i].width = Units(SegmentOf(i).size.width)
            /\ drawInput.anno.strokeWidth # 0 =>
                  /\ pageCalls[i].height = Units(drawInput.anno.strokeWidth)
                  /\ 2 * pageCalls[i].y + pageCalls[i].height
                        = 2 * ConvertedBottom(SegmentOf(i))
                          + Units(SegmentOf(i).size.height)

C34_Witness ==
    /\ Drew("STRIKEOUT")
    /\ drawInput.pageHeight = 800
    /\ drawInput.anno.strokeWidth = 2
    /\ drawInput.anno.segmentRects = <<Rect(10, 20, 100, 4), Rect(0, 0, 7, 3)>>
    /\ pageCalls[1].y = 7770
    /\ pageCalls[1].height = 20
    /\ pageCalls[2].y = 7975

\* The least number of periods of 6 that cover a width.
CeilOverSix(w) == CHOOSE n \in 0..(w + 1) : 6 * n >= w /\ \A k \in 0..(n - 1) : 6 * k < w

\* C35: a squiggly annotation gets, per segment of width w, one path of
\* exactly ceil(w / 6) wave cycles, each 6 units long with the stroke width
\* as amplitude, stroked at the annotation colour and stroke width and
\* never filled.
C35_SquigglyPath ==
    Drew("SQUIGGLY") =>
        /\ Len(pageCalls) = Len(drawInput.anno.segmentRects)
        /\ \A i \in 1..Len(pageCalls) :
            LET d == pageCalls[i].path
                n == CeilOverSix(SegmentOf(i).size.width)
                s == StrokeWidthOf(drawInput.anno)
            IN /\ pageCalls[i].op = "drawSvgPath"
               /\ pageCalls[i].color = NoColor
               /\ pageCalls[i].borderColor = ColorOf(drawInput.anno)
               /\ pageCalls[i].borderWidth = Units(s)
               /\ Len(d) = 1 + 2 * n
               /\ d[1] = PathCommand("M", <<0, Units(s)>>)
               /\ \A k \in 1..n :
                    /\ d[2 * k].cmd = "q"
                    /\ d[2 * k + 1].cmd = "t"
                    /\ d[2 * k].args[2] = -Units(s)
                    /\ d[2 * k].args[3] + d[2 * k + 1].args[1] = Units(6)
                    /\ d[2 * k].args[4] = 0 /\ d[2 * k + 1].args[2] = 0

C35_Witness ==
    /\ Drew("SQUIGGLY")
    /\ drawInput.anno.strokeWidth = 2
    /\ drawInput.anno.color = "#f00"
    /\ drawInput.anno.segmentRects = <<Rect(10, 20, 100, 4)>>
    /\ Len(pageCalls) = 1
    /\ Len(pageCalls[1].path) = 35
    /\ pageCalls[1].borderColor = [r |-> 255, g |-> 0, b |-> 0]

TextCalls == SelectSeq(pageCalls, LAMBDA c : c.op = "drawText")
EmbeddedFreeText == Drew("FREETEXT") /\ drawInput.embeds

\* Line i (from 0) of the contents is the i-th text call, at x + 4 and at
\* baseline (H - y - h) + h - f - i * 1.2 * f.
LinesLaidOut ==
    LET anno == drawInput.anno
        lines == split(anno.contents)
    IN /\ Len(TextCalls) = Len(lines)
       /\ \A k \in 1..Len(TextCalls) :
            /\ TextCalls[k].text = lines[k]
            /\ TextCalls[k].x = Units(anno.rect.origin.x) + Units(4)
            /\ TextCalls[k].size = Units(anno.fontSize)
            /\ TextCalls[k].y = ConvertedBottom(anno.rect) + Units(anno.rect.size.height)
                                  - Units(anno.fontSize) - (k - 1) * 12 * anno.fontSize

\* C36 as stated: every free-text annotation with a resolved custom font has
\* the lines of its contents, split on newline, drawn once each and in
\* order, line i at x + 4 and baseline (H - y - h) + h - f - i * 1.2 * f.
C36_EveryLineDrawn ==
    EmbeddedFreeText => LinesLaidOut

\* C36 amended: the layout holds when the contents are not empty; empty
\* contents get no text call at all.
C36_LinesDrawnUnlessEmpty ==
    EmbeddedFreeText =>
        IF drawInput.anno.contents = "" THEN TextCalls = <<>> ELSE LinesLaidOut

C36_Witness ==
    /\ EmbeddedFreeText
    /\ drawInput.pageHeight = 800
    /\ drawInput.anno.contents = "a\n\nb c"
    /\ drawInput.anno.rect = Rect(10, 20, 100, 40)
    /\ drawInput.anno.fontSize = 12
    /\ Len(TextCalls) = 3
    /\ TextCalls[1].x = 140 /\ TextCalls[1].y = 7680
    /\ TextCalls[3].text = "b c" /\ TextCalls[3].y = 7392

BackgroundSet ==
    drawInput.anno.backgroundColor \notin {"", "transparent"}

\* C37: a free-text annotation with a resolved custom font and a background
\* colour that is set and not transparent gets a filled rectangle covering
\* its converted rectangle, drawn before any of its text lines; without such
\* a colour it gets no rectangle.
C37_BackgroundBeforeText ==
    EmbeddedFreeText =>
        IF BackgroundSet
        THEN /\ Len(pageCalls) >= 1
             /\ pageCalls[1] = drawRectangle(Units(drawInput.anno.rect.origin.x),
                                   ConvertedBottom(drawInput.anno.rect),
                                   Units(drawInput.anno.rect.size.width),
                                   Units(drawInput.anno.rect.size.height),
                                   parseHexColor(drawInput.anno.backgroundColor))
             /\ \A k \in 2..Len(pageCalls) : pageCalls[k].op = "drawText"
        ELSE \A k \in 1..Len(pageCalls) : pageCalls[k].op # "drawRectangle"

====
